---- MODULE Spec2Model ----
(***************************************************************************)
(* A model of excel_to_json.  The API-generation path: FieldMapper,        *)
(* APITransformer and CURLGenerator, and generate_api_calls of main.py     *)
(* that chains them.  The plain-conversion path: ExcelParser and           *)
(* JSONConverter.                                                          *)
(*                                                                         *)
(* Python values are tagged records (the tag is field t), so that the      *)
(* isinstance tests of the code can be modelled.  A Python dict is an      *)
(* ordered sequence of <<key, value>> pairs with unique keys (dicts keep   *)
(* insertion order).  A text is a sequence of string fragments whose       *)
(* concatenation is the text.                                              *)
(***************************************************************************)
EXTENDS Integers, Sequences, FiniteSets, TLC

VARIABLES
    pc,                 \* position of the run
    config,             \* APITransformer config (api section)
    numpy_empty_raises, \* whether bool() of an empty numpy array raises
    mapping,            \* FieldMapper.mapping
    mapping_file,       \* whether generate_api_calls was given a mapping file
    mapping_source,     \* the mapping file load_mapping reads
    output_curl,        \* whether generate_api_calls was given an output path
    sheet_name,         \* the sheet_name argument
    parsed_data,        \* tables: sheet name -> sequence of rows
    mapped_data,        \* what apply_mapping returned
    transformed_data,   \* what transform_data returned
    is_valid,           \* what validate_transformed_data returned
    username,           \* CURLGenerator.username
    password,           \* CURLGenerator.password
    curl_commands,      \* what generate_curl_commands returned
    commands,           \* the commands argument of save_curl_commands
    saved,              \* how many commands save_curl_commands has written
    script,             \* the output script file
    raised,             \* the exception the run ended with ("" when none)
    dataframes,         \* ExcelParser: the tables read from the file
    required_columns,   \* ExcelParser.required_columns
    data_valid,         \* what validate_data returned
    cleaned_dfs,        \* what clean_dataframes returned
    converter,          \* JSONConverter: date_format and flatten
    input_data,         \* the data argument of the JSONConverter methods
    cleaned_data,       \* cleaned_data of process_data
    flattened,          \* what flatten_json returned
    json_data,          \* what convert_to_json returned
    json_valid,         \* what validate_json returned
    output_path,        \* whether process_data was given an output path
    out_file,           \* the output JSON file
    heap,               \* the objects in memory: object number n is heap[n]
    arg,                \* the number of the object a stage was called with
    ret                 \* the number of the object it returned (0: none)

\* what a run is given: it never changes
env == <<config, numpy_empty_raises, mapping, mapping_file, mapping_source,
         output_curl, sheet_name, username, password>>

\* the state of the plain-conversion path
conv == <<dataframes, required_columns, data_valid, cleaned_dfs, converter,
          input_data, cleaned_data, flattened, json_data, json_valid, output_path,
          out_file>>

\* the objects the stages work on
store == <<heap, arg, ret>>

vars == <<pc, env, parsed_data, mapped_data, transformed_data, is_valid,
          curl_commands, commands, saved, script, raised, conv, store>>

----------------------------------------------------------------------------
(* Bounds of the model *)

MaxRows == 2

MaxCols == 2

MaxDocs == 2

MaxFields == 2

MaxCmds == 2

----------------------------------------------------------------------------
(* Python values *)

PNone == [t |-> "none"]

PNaN == [t |-> "nan"]

\* pd.NA
PNA == [t |-> "NA"]

PStr(s) == [t |-> "str", s |-> s]

PInt(n) == [t |-> "int", n |-> n]

PBool(b) == [t |-> "bool", b |-> b]

PList(elems) == [t |-> "list", elems |-> elems]

PDict(items) == [t |-> "dict", items |-> items]

\* a str given by the codes of its characters
PText(codes) == [t |-> "text", codes |-> codes]

(* Ordered dicts: sequences of <<key, value>> pairs *)

HasKey(d, k) == \E i \in 1..Len(d) : d[i][1] = k

KeyIndex(d, k) == CHOOSE i \in 1..Len(d) : d[i][1] = k

Get(d, k) == d[KeyIndex(d, k)][2]

\* d[k] = v: an existing key keeps its position, a new key goes last
DictSet(d, k, v) ==
    IF HasKey(d, k) THEN [d EXCEPT ![KeyIndex(d, k)] = <<k, v>>]
    ELSE Append(d, <<k, v>>)

Keys(d) == [i \in 1..Len(d) |-> d[i][1]]

\* str.strip() on the strings of the model
Strip(s) ==
    CASE s = " " -> ""
      [] s = " x " -> "x"
      [] OTHER -> s

\* str(value) for a scalar
Str(v) ==
    CASE v.t = "str" -> v.s
      [] v.t = "int" -> ToString(v.n)
      [] v.t = "bool" -> IF v.b THEN "True" ELSE "False"
      [] v.t = "none" -> "None"
      [] v.t = "nan" -> "nan"
      [] v.t = "NA" -> "<NA>"

\* pd.isna(value) for a scalar
isna(v) == v.t \in {"none", "nan", "NA"}

\* dict.get(key, default)
DictGet(d, k, default) == IF HasKey(d, k) THEN Get(d, k) ELSE default

\* what a call returned, or the exception it raised
Ok(v) == [status |-> "ok", value |-> v, exc |-> ""]

Raise(e) == [status |-> "raise", value |-> PNone, exc |-> e]

NotCalled == [status |-> "none", value |-> PNone, exc |-> ""]

----------------------------------------------------------------------------
(* APITransformer (api_transformer.py) *)

\* line 28 without the configuration
application_name_default == "ENGINE"

\* lines 28-30
application_name == DictGet(config, "application_name", "ENGINE")

form_name == DictGet(config, "form_name", "ENGINE_FIELD_SETTINGS")

locale == DictGet(config, "locale", "en")

\* bool(pd.isna(value)) for a list value: pd.isna returns an array, whose
\* truth value is that of its element when it has one, is an error when it
\* has several, and for an empty array is False or an error with the numpy
\* version installed.
ArrayTruth(elems) ==
    CASE Len(elems) = 0 -> IF numpy_empty_raises THEN "raise" ELSE "false"
      [] Len(elems) = 1 -> IF isna(elems[1]) THEN "true" ELSE "false"
      [] OTHER -> "raise"

\* the condition of line 85: "skip" (continue), "keep", or "raise"
SkipTest(value) ==
    IF value.t = "none" THEN "skip"
    ELSE IF value.t = "list"
         THEN CASE ArrayTruth(value.elems) = "raise" -> "raise"
                [] ArrayTruth(value.elems) = "true" -> "skip"
                [] OTHER -> "keep"
    ELSE IF isna(value) THEN "skip"
    ELSE IF value.t = "str" /\ Strip(value.s) = "" THEN "skip"
    ELSE "keep"

\* lines 88-102: the field entry of a column that was not skipped
FieldEntry(key, value) ==
    IF value.t = "none" \/ (value.t = "str" /\ Strip(value.s) = "")
    THEN PDict(<< <<"fieldName", PStr(key)>> >>)
    ELSE PDict(<< <<"fieldName", PStr(key)>>,
                  <<"Values",
                    PList(IF value.t # "list"
                          THEN << PStr(Str(value)) >>
                          ELSE [i \in 1..Len(value.elems) |->
                                   PStr(Str(value.elems[i]))])>> >>)

\* the loop of lines 84-104 over the first n columns of the row
RECURSIVE FieldsUpTo(_, _)
FieldsUpTo(row_data, n) ==
    IF n = 0 THEN <<>>
    ELSE LET key == row_data[n][1]
             value == row_data[n][2]
             before == FieldsUpTo(row_data, n - 1)
         IN  IF SkipTest(value) = "skip" THEN before
             ELSE Append(before, FieldEntry(key, value))

_create_document(row_data) ==
    IF \E i \in 1..Len(row_data) : SkipTest(row_data[i][2]) = "raise"
    THEN Raise("ValueError")
    ELSE Ok(PDict(<< <<"applicationName", PStr(application_name)>>,
                     <<"formName", PStr(form_name)>>,
                     <<"phase", PStr("")>>,
                     <<"locale", PStr(locale)>>,
                     <<"Fields", PList(FieldsUpTo(row_data, Len(row_data)))>> >>))

\* transform_data with the Documents appended in the wrong order
transform_data_reversed(data, sheet) ==
    IF sheet \notin DOMAIN data
    THEN Ok(PDict(<< <<"Document", PList(<<>>)>> >>))
    ELSE LET field_rows == data[sheet]
             n == Len(field_rows)
             docs == [i \in 1..n |-> _create_document(field_rows[i])]
         IN  IF \E i \in 1..n : docs[i].status = "raise"
             THEN Raise("ValueError")
             ELSE Ok(PDict(<< <<"Document",
                                PList([i \in 1..n |-> docs[n + 1 - i].value])>> >>))

\* transform_data without the test of lines 44-46 that the sheet is there
transform_data_no_sheet_test(data, sheet) ==
    IF sheet \notin DOMAIN data
    THEN Raise("KeyError")
    ELSE LET field_rows == data[sheet]
             docs == [i \in 1..Len(field_rows) |-> _create_document(field_rows[i])]
         IN  IF \E i \in 1..Len(field_rows) : docs[i].status = "raise"
             THEN Raise("ValueError")
             ELSE Ok(PDict(<< <<"Document",
                                PList([i \in 1..Len(field_rows) |-> docs[i].value])>> >>))

transform_data(data, sheet) ==
    IF sheet \notin DOMAIN data
    THEN Ok(PDict(<< <<"Document", PList(<<>>)>> >>))
    ELSE LET field_rows == data[sheet]
             docs == [i \in 1..Len(field_rows) |-> _create_document(field_rows[i])]
         IN  IF \E i \in 1..Len(field_rows) : docs[i].status = "raise"
             THEN Raise("ValueError")
             ELSE Ok(PDict(<< <<"Document",
                                PList([i \in 1..Len(field_rows) |-> docs[i].value])>> >>))

\* `key in container`: "true", "false", or "raise" (TypeError) when the
\* container is not iterable.  In a dict it looks among the keys, in a list
\* among the elements, in a str for a substring (no string of the model has
\* a key as a proper substring).
In(key, container) ==
    CASE container.t = "dict" -> IF HasKey(container.items, key) THEN "true" ELSE "false"
      [] container.t = "list" ->
            IF \E i \in 1..Len(container.elems) : container.elems[i] = PStr(key)
            THEN "true" ELSE "false"
      [] container.t = "str" -> IF container.s = key THEN "true" ELSE "false"
      [] OTHER -> "raise"

\* lines 144-151: "ok", "false" (return False) or "raise"
CheckField(field) ==
    IF In("fieldName", field) = "raise" THEN "raise"
    ELSE IF In("fieldName", field) = "false" THEN "false"
    ELSE IF In("Values", field) = "true"
         THEN IF field.t # "dict" THEN "raise"
              ELSE IF Get(field.items, "Values").t # "list" THEN "false"
              ELSE "ok"
    ELSE "ok"

\* the loop of lines 143-151 from field j on: it ends at the first field
\* that is not "ok"
RECURSIVE CheckFieldsFrom(_, _)
CheckFieldsFrom(fields, j) ==
    IF j > Len(fields) THEN "ok"
    ELSE IF CheckField(fields[j]) # "ok" THEN CheckField(fields[j])
    ELSE CheckFieldsFrom(fields, j + 1)

\* lines 130-151 for one document
CheckDoc(doc) ==
    LET required_keys == {"applicationName", "formName", "Fields"}
    IN  IF \E k \in required_keys : In(k, doc) = "raise" THEN "raise"
        ELSE IF \E k \in required_keys : In(k, doc) = "false" THEN "false"
        ELSE IF doc.t # "dict" THEN "raise"
        ELSE IF Get(doc.items, "Fields").t # "list" THEN "false"
        ELSE CheckFieldsFrom(Get(doc.items, "Fields").elems, 1)

\* the loop of lines 129-151 from document i on
RECURSIVE CheckDocsFrom(_, _)
CheckDocsFrom(docs, i) ==
    IF i > Len(docs) THEN "ok"
    ELSE IF CheckDoc(docs[i]) # "ok" THEN CheckDoc(docs[i])
    ELSE CheckDocsFrom(docs, i + 1)

validate_transformed_data(td) ==
    IF ~HasKey(td.items, "Document") THEN Ok(PBool(FALSE))
    ELSE IF Get(td.items, "Document").t # "list" THEN Ok(PBool(FALSE))
    ELSE CASE CheckDocsFrom(Get(td.items, "Document").elems, 1) = "raise" -> Raise("TypeError")
           [] CheckDocsFrom(Get(td.items, "Document").elems, 1) = "false" -> Ok(PBool(FALSE))
           [] OTHER -> Ok(PBool(TRUE))

----------------------------------------------------------------------------
(* FieldMapper (field_mapper.py) *)

\* truth value of a Python value
Truthy(v) ==
    CASE v.t = "none" -> FALSE
      [] v.t = "nan" -> TRUE
      [] v.t = "str" -> v.s # ""
      [] v.t = "text" -> v.codes # <<>>
      [] v.t = "int" -> v.n # 0
      [] v.t = "bool" -> v.b
      [] v.t = "list" -> v.elems # <<>>
      [] v.t = "dict" -> v.items # <<>>

\* self.mapping.get(field_name, field_name)
MappedField(m, field_name) == DictGet(m.items, field_name, PStr(field_name)).s

\* the inner loop of lines 89-93 over the first n columns of the row
RECURSIVE MappedRowUpTo(_, _, _)
MappedRowUpTo(m, row, n) ==
    IF n = 0 THEN <<>>
    ELSE DictSet(MappedRowUpTo(m, row, n - 1), MappedField(m, row[n][1]), row[n][2])

\* a mapped row that keeps only the columns the mapping names
MappedRowOnlyMapped(m, row) ==
    MappedRowUpTo(m, SelectSeq(row, LAMBDA p : HasKey(m.items, p[1])),
                  Len(SelectSeq(row, LAMBDA p : HasKey(m.items, p[1]))))

MappedRow(m, row) == MappedRowUpTo(m, row, Len(row))

\* apply_mapping without the test that the sheet is there
apply_mapping_no_sheet_test(m, data, sheet) ==
    IF ~Truthy(m) THEN Ok(data)
    ELSE IF sheet \notin DOMAIN data THEN Raise("KeyError")
    ELSE Ok([data EXCEPT ![sheet] =
                [i \in 1..Len(data[sheet]) |-> MappedRow(m, data[sheet][i])]])

apply_mapping(m, data, sheet) ==
    IF ~Truthy(m) THEN Ok(data)
    ELSE IF sheet \notin DOMAIN data THEN Ok(data)
    ELSE Ok([data EXCEPT ![sheet] =
                [i \in 1..Len(data[sheet]) |-> MappedRow(m, data[sheet][i])]])

----------------------------------------------------------------------------
(* CURLGenerator (curl_generator.py) *)

api_endpoint == "https://api.example.com/endpoint"

\* the base64 alphabet, and the padding character last
B64Alphabet ==
    <<"A", "B", "C", "D", "E", "F", "G", "H", "I", "J", "K", "L", "M",
      "N", "O", "P", "Q", "R", "S", "T", "U", "V", "W", "X", "Y", "Z",
      "a", "b", "c", "d", "e", "f", "g", "h", "i", "j", "k", "l", "m",
      "n", "o", "p", "q", "r", "s", "t", "u", "v", "w", "x", "y", "z",
      "0", "1", "2", "3", "4", "5", "6", "7", "8", "9", "+", "/", "=">>

\* the 6-bit groups of the bytes, 64 standing for padding
RECURSIVE B64Sextets(_)
B64Sextets(b) ==
    CASE Len(b) = 0 -> <<>>
      [] Len(b) = 1 -> <<b[1] \div 4, (b[1] % 4) * 16, 64, 64>>
      [] Len(b) = 2 -> <<b[1] \div 4, (b[1] % 4) * 16 + b[2] \div 16,
                         (b[2] % 16) * 4, 64>>
      [] OTHER -> <<b[1] \div 4, (b[1] % 4) * 16 + b[2] \div 16,
                    (b[2] % 16) * 4 + b[3] \div 64, b[3] % 64>>
                      \o B64Sextets(SubSeq(b, 4, Len(b)))

\* base64.b64encode(bytes).decode(): the characters of the encoding
b64encode(b) == [i \in 1..Len(B64Sextets(b)) |-> B64Alphabet[B64Sextets(b)[i] + 1]]

\* lines 68-71 with `or` for `and`: a header as soon as one of the two is
\* given, the other rendered by str()
StrCodes(v) == IF v.t = "text" THEN v.codes ELSE <<78, 111, 110, 101>>

AuthHeaderIfEither(user, pass) ==
    IF Truthy(user) \/ Truthy(pass)
    THEN << <<"-H 'Authorization: Basic ">>
                \o b64encode(StrCodes(user) \o <<58>> \o StrCodes(pass)) \o <<"'">> >>
    ELSE <<>>

\* lines 68-71: the parts added for basic auth
AuthHeader(user, pass) ==
    IF Truthy(user) /\ Truthy(pass)
    THEN << <<"-H 'Authorization: Basic ">>
                \o b64encode(user.codes \o <<58>> \o pass.codes) \o <<"'">> >>
    ELSE <<>>

RECURSIVE Spaces(_)
Spaces(n) == IF n = 0 THEN "" ELSE "  " \o Spaces(n - 1)

\* json.dumps(value, indent=2) at a nesting level, as fragments; every line
\* break is a fragment of its own
RECURSIVE Dumps(_, _), DumpElems(_, _, _), DumpItems(_, _, _)
Dumps(v, level) ==
    CASE v.t = "str" -> <<"\"" \o v.s \o "\"">>
      [] v.t = "int" -> <<ToString(v.n)>>
      [] v.t = "bool" -> <<IF v.b THEN "true" ELSE "false">>
      [] v.t = "none" -> <<"null">>
      [] v.t = "nan" -> <<"NaN">>
      [] v.t = "list" ->
            IF v.elems = <<>> THEN <<"[]">>
            ELSE <<"[">> \o DumpElems(v.elems, 1, level + 1)
                         \o <<"\n", Spaces(level), "]">>
      [] v.t = "dict" ->
            IF v.items = <<>> THEN <<"{}">>
            ELSE <<"{">> \o DumpItems(v.items, 1, level + 1)
                         \o <<"\n", Spaces(level), "}">>

DumpElems(elems, i, level) ==
    IF i > Len(elems) THEN <<>>
    ELSE <<"\n", Spaces(level)>> \o Dumps(elems[i], level)
            \o (IF i < Len(elems) THEN <<",">> ELSE <<>>)
            \o DumpElems(elems, i + 1, level)

DumpItems(items, i, level) ==
    IF i > Len(items) THEN <<>>
    ELSE <<"\n", Spaces(level), "\"" \o items[i][1] \o "\"", ": ">>
            \o Dumps(items[i][2], level)
            \o (IF i < Len(items) THEN <<",">> ELSE <<>>)
            \o DumpItems(items, i + 1, level)

\* text.replace('\n', '\n  ')
IndentLines(text) == [i \in 1..Len(text) |-> IF text[i] = "\n" THEN "\n  " ELSE text[i]]

\* sep.join(parts)
RECURSIVE Join(_, _)
Join(parts, sep) ==
    IF parts = <<>> THEN <<>>
    ELSE IF Len(parts) = 1 THEN parts[1]
    ELSE parts[1] \o <<sep>> \o Join(Tail(parts), sep)

_generate_single_curl_command(data) ==
    LET curl_command ==
            << <<"curl">>,
               <<"--url '", api_endpoint, "'">>,
               <<"-X POST">>,
               <<"-H 'Content-Type: application/json'">> >>
                \o AuthHeader(username, password)
                \o << <<"--data '">> \o IndentLines(Dumps(data, 0)) \o <<"'">> >>
    IN  Join(curl_command, " \\\n  ")

\* one command for each Document instead of one for the container
generate_curl_commands_per_document(td) ==
    IF ~HasKey(td.items, "Document") \/ ~Truthy(Get(td.items, "Document"))
    THEN Ok(<<>>)
    ELSE Ok([i \in 1..Len(Get(td.items, "Document").elems) |->
                _generate_single_curl_command(
                    PDict(<< <<"Document",
                               PList(<<Get(td.items, "Document").elems[i]>>)>> >>))])

generate_curl_commands(td) ==
    IF ~HasKey(td.items, "Document") \/ ~Truthy(Get(td.items, "Document"))
    THEN Ok(<<>>)
    ELSE Ok(<<_generate_single_curl_command(td)>>)

----------------------------------------------------------------------------
(* Inputs *)

ColNames == <<"a", "b", "c", "d">>

\* the column names a row may use
Cols == {ColNames[i] : i \in 1..(IF MaxCols < Len(ColNames) THEN MaxCols ELSE Len(ColNames))}

\* sequences of n distinct column names
Shapes(n) == {s \in [1..n -> Cols] : \A i, j \in 1..n : s[i] = s[j] => i = j}

AllShapes == UNION {Shapes(n) : n \in 0..MaxCols}

\* rows with the columns of shape and cells among values
RowsOf(shape, values) ==
    {[i \in 1..Len(shape) |-> <<shape[i], cells[i]>>] :
        cells \in [1..Len(shape) -> values]}

\* tables as a DataFrame gives them: every row has the same columns
TablesOf(values) ==
    UNION {UNION {[1..n -> RowsOf(shape, values)] : n \in 0..MaxRows} :
              shape \in AllShapes}

\* cells of every kind: missing ones, scalars, lists
RichCells ==
    {PNone, PNaN, PStr(" "), PStr("x"), PInt(7),
     PList(<<>>), PList(<<PStr("x")>>), PList(<<PNaN>>),
     PList(<<PStr("x"), PInt(7)>>)}

SimpleCells == {PNaN, PStr("x")}

\* tables of scalar cells, and one-row tables with cells of every kind
TransformTables ==
    TablesOf(SimpleCells)
        \cup UNION {{<<r>> : r \in RowsOf(shape, RichCells)} : shape \in AllShapes}

SheetNames == {"fields", "summary"}

Configs ==
    {<<>>,
     << <<"locale", "fr">> >>,
     << <<"application_name", "APP">>, <<"form_name", "FORM">>, <<"locale", "fr">> >>}

\* tables whose cells are all different: the cell of row i, column j is 10*i+j
MapperTables ==
    UNION {{[i \in 1..n |-> [j \in 1..Len(shape) |-> <<shape[j], PInt(10 * i + j)>>]] :
               n \in 0..MaxRows} : shape \in AllShapes}

\* the names a mapping may rename a column to: a column name or a new name
Targets == Cols \cup {"X"}

\* the mapping that renames the columns of sources as f says
MappingOf(sources, f) ==
    LET names == SelectSeq(ColNames, LAMBDA c : c \in sources)
    IN  PDict([i \in 1..Len(names) |-> <<names[i], PStr(f[names[i]])>>])

\* every mapping of some columns, the empty one (none loaded) included
Mappings ==
    UNION {{MappingOf(sources, f) : f \in [sources -> Targets]} :
              sources \in SUBSET Cols}

\* field entries, well formed and not
FieldEntries ==
    {PDict(<< <<"fieldName", PStr("a")>>, <<"Values", PList(<<PStr("v")>>)>> >>),
     PDict(<< <<"fieldName", PStr("a")>> >>),
     PDict(<< <<"Values", PList(<<PStr("v")>>)>> >>),
     PDict(<< <<"fieldName", PStr("a")>>, <<"Values", PStr("v")>> >>),
     PInt(5)}

FieldLists == UNION {[1..n -> FieldEntries] : n \in 0..MaxFields}

DocWith(fields) ==
    PDict(<< <<"applicationName", PStr("ENGINE")>>,
             <<"formName", PStr("ENGINE_FIELD_SETTINGS")>>,
             <<"phase", PStr("")>>,
             <<"locale", PStr("en")>>,
             <<"Fields", fields>> >>)

\* a document without one of its keys
DocWithout(key) ==
    PDict(SelectSeq(DocWith(PList(<<>>)).items, LAMBDA p : p[1] # key))

\* the documents that fill a list: a well-formed one, one without a key,
\* and a value that is no mapping
PlainDocs == {DocWith(PList(<<>>)), DocWithout("formName"), PInt(5)}

\* documents with fields, with a Fields value that is no list, without
\* another key, and other values that are no mapping
FieldDocs ==
    {DocWith(PList(fl)) : fl \in FieldLists}
        \cup {DocWith(PStr("x")), DocWithout("applicationName"),
              DocWithout("Fields"), PStr("x"), PNone}

\* lists of plain documents, and those lists with one document replaced by
\* one of FieldDocs
DocLists ==
    LET plain == UNION {[1..n -> PlainDocs] : n \in 0..MaxDocs}
    IN  plain \cup UNION {{[l EXCEPT ![i] = d] : i \in 1..Len(l), d \in FieldDocs} :
                             l \in plain}

\* what validate_transformed_data may be given
ValidateInputs ==
    {PDict(<< <<"Document", PList(l)>> >>) : l \in DocLists}
        \cup {PDict(<<>>), PDict(<< <<"Documents", PList(<<>>)>> >>),
              PDict(<< <<"Document", PStr("x")>> >>),
              PDict(<< <<"Document", PNone>> >>),
              PDict(<< <<"Document", DocWith(PList(<<>>))>> >>)}

\* credentials: None, "", "u", "us"
Creds == {PNone, PText(<<>>), PText(<<117>>), PText(<<117, 115>>)}

\* the documents given to generate_curl_commands
CurlDocs ==
    {DocWith(PList(<<>>)),
     DocWith(PList(<< PDict(<< <<"fieldName", PStr("a")>>,
                               <<"Values", PList(<<PStr("v")>>)>> >>) >>))}

\* containers of documents, and one without the Document key
CurlInputs ==
    {PDict(<< <<"Document", PList(l)>> >>) :
        l \in UNION {[1..n -> CurlDocs] : n \in 0..MaxDocs}} \cup {PDict(<<>>)}

\* command texts that save_curl_commands may be given besides generated ones
CmdTexts == {<<"curl --url 'http://one'">>, <<"curl", " \\\n  ", "--url 'http://two'">>}

CmdLists == UNION {[1..n -> CmdTexts] : n \in 0..MaxCmds}

OldFile(x) == [exists |-> TRUE, content |-> <<"echo old\n">>, executable |-> x]

NoFile == [exists |-> FALSE, content |-> <<>>, executable |-> FALSE]

\* a mapping file that holds the JSON text of value
MappingSource(value) == [exists |-> TRUE, json |-> TRUE, value |-> value]

\* a file that is not JSON text
NotJsonSource == [exists |-> TRUE, json |-> FALSE, value |-> PNone]

\* no file at the path
NoMappingSource == [exists |-> FALSE, json |-> FALSE, value |-> PNone]

----------------------------------------------------------------------------
(* The two paths share no state: what each holds while the other runs *)

\* no object is followed
StoreIdle ==
    /\ heap = <<>>
    /\ arg = 0
    /\ ret = 0

\* the plain-conversion path before any of its calls
PlainIdle ==
    /\ StoreIdle
    /\ dataframes = <<>>
    /\ required_columns = <<>>
    /\ data_valid = NotCalled
    /\ cleaned_dfs = NotCalled
    /\ converter = [date_format |-> <<>>, flatten |-> FALSE]
    /\ input_data = PNone
    /\ cleaned_data = NotCalled
    /\ flattened = NotCalled
    /\ json_data = NotCalled
    /\ json_valid = NotCalled
    /\ output_path = FALSE
    /\ out_file = [exists |-> FALSE, content |-> <<>>]

\* the state of the API-generation path, but for parsed_data
api == <<env, mapped_data, transformed_data, is_valid, curl_commands, commands,
         saved, script>>

\* the API-generation path before any of its calls
ApiIdle ==
    /\ StoreIdle
    /\ config = <<>>
    /\ numpy_empty_raises = FALSE
    /\ mapping = PDict(<<>>)
    /\ mapping_file = FALSE
    /\ mapping_source = NoMappingSource
    /\ output_curl = FALSE
    /\ sheet_name = "fields"
    /\ mapped_data = NotCalled
    /\ transformed_data = NotCalled
    /\ is_valid = NotCalled
    /\ username = PNone
    /\ password = PNone
    /\ curl_commands = NotCalled
    /\ commands = <<>>
    /\ saved = 0
    /\ script = NoFile

----------------------------------------------------------------------------
(* transform_data called on a table *)

InitTransform ==
    /\ pc = "transform"
    /\ config \in Configs
    /\ numpy_empty_raises \in BOOLEAN
    /\ mapping = PDict(<<>>)
    /\ mapping_file = FALSE
    /\ mapping_source = NoMappingSource
    /\ output_curl = FALSE
    /\ sheet_name \in SheetNames
    /\ \E rows \in TransformTables : parsed_data = [s \in {"fields"} |-> rows]
    /\ mapped_data = NotCalled
    /\ transformed_data = NotCalled
    /\ is_valid = NotCalled
    /\ username = PNone
    /\ password = PNone
    /\ curl_commands = NotCalled
    /\ commands = <<>>
    /\ saved = 0
    /\ script = NoFile
    /\ raised = ""
    /\ PlainIdle

TransformData ==
    /\ pc = "transform"
    /\ transformed_data' = transform_data(parsed_data, sheet_name)
    /\ pc' = "transformed"
    /\ UNCHANGED <<env, conv, store, parsed_data, mapped_data, is_valid, curl_commands,
                   commands, saved, script, raised>>

NextTransform == TransformData

SpecTransform == InitTransform /\ [][NextTransform]_vars

----------------------------------------------------------------------------
(* apply_mapping called on a table *)

InitMapper ==
    /\ pc = "map"
    /\ config = <<>>
    /\ numpy_empty_raises = FALSE
    /\ mapping \in Mappings
    /\ mapping_file = FALSE
    /\ mapping_source = NoMappingSource
    /\ output_curl = FALSE
    /\ sheet_name \in SheetNames
    /\ \E rows \in MapperTables : parsed_data = [s \in {"fields"} |-> rows]
    /\ mapped_data = NotCalled
    /\ transformed_data = NotCalled
    /\ is_valid = NotCalled
    /\ username = PNone
    /\ password = PNone
    /\ curl_commands = NotCalled
    /\ commands = <<>>
    /\ saved = 0
    /\ script = NoFile
    /\ raised = ""
    /\ PlainIdle

ApplyMapping ==
    /\ pc = "map"
    /\ mapped_data' = apply_mapping(mapping, parsed_data, sheet_name)
    /\ pc' = "mapped"
    /\ UNCHANGED <<env, conv, store, parsed_data, transformed_data, is_valid, curl_commands,
                   commands, saved, script, raised>>

NextMapper == ApplyMapping

SpecMapper == InitMapper /\ [][NextMapper]_vars

----------------------------------------------------------------------------
(* validate_transformed_data called on a container *)

InitValidate ==
    /\ pc = "validate"
    /\ config = <<>>
    /\ numpy_empty_raises = FALSE
    /\ mapping = PDict(<<>>)
    /\ mapping_file = FALSE
    /\ mapping_source = NoMappingSource
    /\ output_curl = FALSE
    /\ sheet_name = "fields"
    /\ parsed_data = [s \in {"fields"} |-> <<>>]
    /\ mapped_data = NotCalled
    /\ \E td \in ValidateInputs : transformed_data = Ok(td)
    /\ is_valid = NotCalled
    /\ username = PNone
    /\ password = PNone
    /\ curl_commands = NotCalled
    /\ commands = <<>>
    /\ saved = 0
    /\ script = NoFile
    /\ raised = ""
    /\ PlainIdle

ValidateTransformedData ==
    /\ pc = "validate"
    /\ is_valid' = validate_transformed_data(transformed_data.value)
    /\ pc' = "validated"
    /\ UNCHANGED <<env, conv, store, parsed_data, mapped_data, transformed_data,
                   curl_commands, commands, saved, script, raised>>

NextValidate == ValidateTransformedData

SpecValidate == InitValidate /\ [][NextValidate]_vars

----------------------------------------------------------------------------
(* save_curl_commands, step by step *)

\* line 97-99: nothing to save
SaveNothing ==
    /\ pc = "save"
    /\ commands = <<>>
    /\ pc' = "saved"
    /\ UNCHANGED <<env, conv, store, parsed_data, mapped_data, transformed_data, is_valid,
                   curl_commands, commands, saved, script, raised>>

\* lines 103-106: the directory is made and the file opened for writing,
\* which empties it
SaveOpen ==
    /\ pc = "save"
    /\ commands # <<>>
    /\ script' = [script EXCEPT !.exists = TRUE, !.content = <<>>]
    /\ pc' = "header"
    /\ UNCHANGED <<env, conv, store, parsed_data, mapped_data, transformed_data, is_valid,
                   curl_commands, commands, saved, raised>>

\* lines 108-109
SaveHeader ==
    /\ pc = "header"
    /\ script' = [script EXCEPT !.content =
                     @ \o <<"#!/bin/bash\n", "# Generated API calls\n\n">>]
    /\ pc' = "commands"
    /\ UNCHANGED <<env, conv, store, parsed_data, mapped_data, transformed_data, is_valid,
                   curl_commands, commands, saved, raised>>

\* the two writes of lines 113-114 for the command of index i (from 0)
CommandBlockFromZero(i, command) ==
    <<"# API Call " \o ToString(i) \o "\n">> \o command \o <<"\n\n">>

CommandBlock(i, command) ==
    <<"# API Call " \o ToString(i + 1) \o "\n">> \o command \o <<"\n\n">>

\* lines 112-114: one iteration of the loop
SaveCommand ==
    /\ pc = "commands"
    /\ saved < Len(commands)
    /\ script' = [script EXCEPT !.content =
                     @ \o CommandBlock(saved, commands[saved + 1])]
    /\ saved' = saved + 1
    /\ UNCHANGED <<pc, env, conv, store, parsed_data, mapped_data, transformed_data, is_valid,
                   curl_commands, commands, raised>>

\* the end of the with block: the file is closed
SaveClose ==
    /\ pc = "commands"
    /\ saved = Len(commands)
    /\ pc' = "chmod"
    /\ UNCHANGED <<env, conv, store, parsed_data, mapped_data, transformed_data, is_valid,
                   curl_commands, commands, saved, script, raised>>

\* line 117
SaveChmod ==
    /\ pc = "chmod"
    /\ script' = [script EXCEPT !.executable = TRUE]
    /\ pc' = "saved"
    /\ UNCHANGED <<env, conv, store, parsed_data, mapped_data, transformed_data, is_valid,
                   curl_commands, commands, saved, raised>>

\* lines 121-123: makedirs, open, a write, the close or chmod fails
SaveFail ==
    /\ \/ pc = "save" /\ commands # <<>>
       \/ pc \in {"header", "commands", "chmod"}
    /\ raised' = "IOError"
    /\ pc' = "error"
    /\ UNCHANGED <<env, conv, store, parsed_data, mapped_data, transformed_data, is_valid,
                   curl_commands, commands, saved, script>>

SaveSteps ==
    \/ SaveNothing
    \/ SaveOpen
    \/ SaveHeader
    \/ SaveCommand
    \/ SaveClose
    \/ SaveChmod
    \/ SaveFail

----------------------------------------------------------------------------
(* generate_curl_commands and save_curl_commands called on their own *)

InitCurl ==
    /\ pc = "generate"
    /\ config = <<>>
    /\ numpy_empty_raises = FALSE
    /\ mapping = PDict(<<>>)
    /\ mapping_file = FALSE
    /\ mapping_source = NoMappingSource
    /\ output_curl = TRUE
    /\ sheet_name = "fields"
    /\ parsed_data = [s \in {"fields"} |-> <<>>]
    /\ mapped_data = NotCalled
    /\ \E td \in CurlInputs : transformed_data = Ok(td)
    /\ is_valid = NotCalled
    /\ username \in Creds
    /\ password \in Creds
    /\ curl_commands = NotCalled
    /\ commands = <<>>
    /\ saved = 0
    /\ script \in {NoFile, OldFile(FALSE), OldFile(TRUE)}
    /\ raised = ""
    /\ PlainIdle

GenerateCurlCommands ==
    /\ pc = "generate"
    /\ curl_commands' = generate_curl_commands(transformed_data.value)
    /\ pc' = "generated"
    /\ UNCHANGED <<env, conv, store, parsed_data, mapped_data, transformed_data, is_valid,
                   commands, saved, script, raised>>

\* save_curl_commands is called with the generated commands or other ones
SaveCurlCommands ==
    /\ pc = "generated"
    /\ commands' \in {curl_commands.value} \cup CmdLists
    /\ saved' = 0
    /\ pc' = "save"
    /\ UNCHANGED <<env, conv, store, parsed_data, mapped_data, transformed_data, is_valid,
                   curl_commands, script, raised>>

NextCurl ==
    \/ GenerateCurlCommands
    \/ SaveCurlCommands
    \/ SaveSteps

SpecCurl == InitCurl /\ [][NextCurl]_vars

----------------------------------------------------------------------------
(* generate_api_calls (main.py) *)

\* rows as parse_excel gives them: cleaned scalar cells
PipelineRow1 == << <<"a", PStr("x")>>, <<"b", PInt(7)>> >>

PipelineRow2 == << <<"a", PNone>>, <<"b", PStr("x")>> >>

PipelineTables ==
    {<<>>, <<PipelineRow1>>, <<PipelineRow2>>, <<PipelineRow1, PipelineRow2>>}

PipelineMappings ==
    {PDict(<<>>), PDict(<< <<"a", PStr("X")>> >>), PDict(<< <<"a", PStr("b")>> >>)}

Init ==
    /\ pc = "parse"
    /\ config \in Configs
    /\ numpy_empty_raises = FALSE
    /\ mapping_file \in BOOLEAN
    /\ mapping \in IF mapping_file THEN PipelineMappings ELSE {PDict(<<>>)}
    /\ mapping_source = IF mapping_file THEN MappingSource(mapping) ELSE NoMappingSource
    /\ output_curl \in BOOLEAN
    /\ sheet_name = "fields"
    /\ parsed_data = [s \in {} |-> <<>>]
    /\ mapped_data = NotCalled
    /\ transformed_data = NotCalled
    /\ is_valid = NotCalled
    /\ username \in {PNone, PText(<<117>>)}
    /\ password \in {PNone, PText(<<117, 115>>)}
    /\ curl_commands = NotCalled
    /\ commands = <<>>
    /\ saved = 0
    /\ script \in {NoFile, OldFile(FALSE)}
    /\ raised = ""
    /\ PlainIdle

\* line 126: parse_excel returns the rows of the sheet
Parse ==
    /\ pc = "parse"
    /\ \E rows \in PipelineTables : parsed_data' = [s \in {sheet_name} |-> rows]
    /\ pc' = "map"
    /\ UNCHANGED <<env, conv, store, mapped_data, transformed_data, is_valid, curl_commands,
                   commands, saved, script, raised>>

\* line 126: parse_excel raises (no such file, or not a workbook with the sheet)
ParseFail ==
    /\ pc = "parse"
    /\ raised' \in {"FileNotFoundError", "ValueError"}
    /\ pc' = "error"
    /\ UNCHANGED <<env, conv, store, parsed_data, mapped_data, transformed_data, is_valid,
                   curl_commands, commands, saved, script>>

\* lines 129-131
Map ==
    /\ pc = "map"
    /\ IF mapping_file
       THEN /\ mapped_data' = apply_mapping(mapping, parsed_data, sheet_name)
            /\ parsed_data' = mapped_data'.value
       ELSE UNCHANGED <<mapped_data, parsed_data>>
    /\ pc' = "transform"
    /\ UNCHANGED <<env, conv, store, transformed_data, is_valid, curl_commands, commands,
                   saved, script, raised>>

\* a run that goes from the transformation straight to the generation
AfterTransformNoValidation(td) == IF td.status = "raise" THEN "error" ELSE "generate"

\* where the run goes after line 135
AfterTransform(td) == IF td.status = "raise" THEN "error" ELSE "validate"

\* line 135
Transform ==
    /\ pc = "transform"
    /\ transformed_data' = transform_data(parsed_data, sheet_name)
    /\ pc' = AfterTransform(transformed_data')
    /\ raised' = transformed_data'.exc
    /\ UNCHANGED <<env, conv, store, parsed_data, mapped_data, is_valid, curl_commands,
                   commands, saved, script>>

\* lines 138-139: the exception the run ends with after validation ("" when
\* it goes on)
ValidationError(v) ==
    IF v.status = "raise" THEN v.exc
    ELSE IF ~v.value.b THEN "ValueError"
    ELSE ""

\* lines 138-139
Validate ==
    /\ pc = "validate"
    /\ is_valid' = validate_transformed_data(transformed_data.value)
    /\ raised' = ValidationError(is_valid')
    /\ pc' = IF raised' = "" THEN "generate" ELSE "error"
    /\ UNCHANGED <<env, conv, store, parsed_data, mapped_data, transformed_data,
                   curl_commands, commands, saved, script>>

\* lines 143-152: the commands are generated; the run returns "" when there
\* is none, and calls save_curl_commands when it has an output path
Generate ==
    /\ pc = "generate"
    /\ curl_commands' = generate_curl_commands(transformed_data.value)
    /\ IF curl_commands'.value # <<>> /\ output_curl
       THEN /\ commands' = curl_commands'.value
            /\ saved' = 0
            /\ pc' = "save"
       ELSE /\ pc' = "done"
            /\ UNCHANGED <<commands, saved>>
    /\ UNCHANGED <<env, conv, store, parsed_data, mapped_data, transformed_data, is_valid,
                   script, raised>>

\* lines 154-155: save_curl_commands returned
Return ==
    /\ pc = "saved"
    /\ pc' = "done"
    /\ UNCHANGED <<env, conv, store, parsed_data, mapped_data, transformed_data, is_valid,
                   curl_commands, commands, saved, script, raised>>

Next ==
    \/ Parse
    \/ ParseFail
    \/ Map
    \/ Transform
    \/ Validate
    \/ Generate
    \/ SaveOpen
    \/ SaveHeader
    \/ SaveCommand
    \/ SaveClose
    \/ SaveChmod
    \/ SaveFail
    \/ Return

Spec == Init /\ [][Next]_vars

----------------------------------------------------------------------------
(* Properties of transform_data and _create_document *)

\* MissingValue: null, the NaN sentinel, an empty or whitespace-only string
IsMissing(v) == v.t \in {"none", "nan"} \/ (v.t = "str" /\ v.s \in {"", " "})

IsScalar(v) == v.t \in {"none", "nan", "str", "int", "bool"}

\* the Documents of a returned container
DocumentsOf(td) == Get(td.value.items, "Document").elems

FieldsOf(doc) == Get(doc.items, "Fields").elems

FieldNamesOf(doc) ==
    [j \in 1..Len(FieldsOf(doc)) |-> Get(FieldsOf(doc)[j].items, "fieldName").s]

\* the columns of a row that hold a value: those whose cell is not missing
\* and not a list made of one missing element
HoldsValue(cell) ==
    /\ ~IsMissing(cell)
    /\ ~(cell.t = "list" /\ Len(cell.elems) = 1 /\ IsMissing(cell.elems[1]))

ValueColumns(row) == Keys(SelectSeq(row, LAMBDA p : HoldsValue(p[2])))

TransformReturned == pc = "transformed" /\ sheet_name \in DOMAIN parsed_data

\* C1: transform_data on a table of n rows of scalar cells returns n
\* Documents; whenever it returns, the i-th Document is the one built from
\* the i-th row, and its FieldEntries name the columns of that row that hold
\* a value, in the row's column order.
InvC1 ==
    TransformReturned =>
        LET rows == parsed_data[sheet_name]
        IN  /\ (\A i \in 1..Len(rows) : \A j \in 1..Len(rows[i]) :
                    IsScalar(rows[i][j][2]))
                    => transformed_data.status = "ok"
            /\ transformed_data.status = "ok" =>
                  /\ Len(DocumentsOf(transformed_data)) = Len(rows)
                  /\ \A i \in 1..Len(rows) :
                        FieldNamesOf(DocumentsOf(transformed_data)[i])
                            = ValueColumns(rows[i])

\* two different rows of two columns each were transformed
WitC1 ==
    /\ TransformReturned
    /\ transformed_data.status = "ok"
    /\ Len(parsed_data[sheet_name]) = 2
    /\ ValueColumns(parsed_data[sheet_name][1]) # ValueColumns(parsed_data[sheet_name][2])
    /\ Len(FieldsOf(DocumentsOf(transformed_data)[2])) = 2

\* C2 (as claimed): every column of a row gives exactly one FieldEntry named
\* after it, with a Values key exactly when the cell is not MissingValue, so
\* a Document has as many FieldEntries as its row has columns.
InvC2 ==
    (TransformReturned /\ transformed_data.status = "ok") =>
        LET rows == parsed_data[sheet_name]
            docs == DocumentsOf(transformed_data)
        IN  \A i \in 1..Len(rows) :
               /\ Len(FieldsOf(docs[i])) = Len(rows[i])
               /\ \A j \in 1..Len(rows[i]) :
                     /\ Get(FieldsOf(docs[i])[j].items, "fieldName").s = rows[i][j][1]
                     /\ HasKey(FieldsOf(docs[i])[j].items, "Values")
                            <=> ~IsMissing(rows[i][j][2])

\* str() of each value of a cell, in order
ExpectedValues(cell) ==
    IF cell.t = "list" THEN [k \in 1..Len(cell.elems) |-> PStr(Str(cell.elems[k]))]
    ELSE << PStr(Str(cell)) >>

\* C3 (as claimed): building the FieldEntry of a non-missing cell never
\* raises, and the entry carries a non-empty Values list: [str(cell)] for a
\* scalar, the str() of the elements in order for a list of any length.
InvC3 ==
    TransformReturned =>
        LET rows == parsed_data[sheet_name]
        IN  \A i \in 1..Len(rows) : \A j \in 1..Len(rows[i]) :
               ~IsMissing(rows[i][j][2]) =>
                  /\ transformed_data.status = "ok"
                  /\ \E f \in 1..Len(FieldsOf(DocumentsOf(transformed_data)[i])) :
                        LET entry == FieldsOf(DocumentsOf(transformed_data)[i])[f].items
                        IN  /\ Get(entry, "fieldName").s = rows[i][j][1]
                            /\ HasKey(entry, "Values")
                            /\ Get(entry, "Values").t = "list"
                            /\ Get(entry, "Values").elems # <<>>
                            /\ Get(entry, "Values").elems = ExpectedValues(rows[i][j][2])

----------------------------------------------------------------------------
(* Properties of apply_mapping *)

\* mapping.get(k, k) read off the mapping's entries
Renamed(k) ==
    IF \E e \in 1..Len(mapping.items) : mapping.items[e][1] = k
    THEN (CHOOSE v \in {mapping.items[e][2] : e \in {x \in 1..Len(mapping.items) :
                                                       mapping.items[x][1] = k}} : TRUE).s
    ELSE k

MappingApplied ==
    /\ pc = "mapped"
    /\ mapping.items # <<>>
    /\ sheet_name \in DOMAIN parsed_data

FirstOfName(row) ==
    {j \in 1..Len(row) :
        \A h \in 1..(j - 1) : Renamed(row[h][1]) # Renamed(row[j][1])}

\* the last column of a row renamed to the same name as column j
LastOfName(row, j) ==
    CHOOSE l \in 1..Len(row) :
        /\ Renamed(row[l][1]) = Renamed(row[j][1])
        /\ \A h \in (l + 1)..Len(row) : Renamed(row[h][1]) # Renamed(row[j][1])

\* the j-th smallest element of a set of numbers
RECURSIVE NthOf(_, _)
NthOf(S, j) ==
    LET least == CHOOSE x \in S : \A y \in S : x <= y
    IN  IF j = 1 THEN least ELSE NthOf(S \ {least}, j - 1)

InvC6 ==
    (pc = "mapped" /\ (mapping.items = <<>> \/ sheet_name \notin DOMAIN parsed_data)) =>
        /\ mapped_data.status = "ok"
        /\ mapped_data.value = parsed_data

\* a loaded mapping was applied for a sheet that is not there
WitC6 ==
    /\ pc = "mapped"
    /\ mapping.items # <<>>
    /\ sheet_name \notin DOMAIN parsed_data
    /\ Len(parsed_data["fields"]) = 2
    /\ mapped_data.status = "ok"

\* an empty mapping was applied to a table with rows
WitC6Empty ==
    /\ pc = "mapped"
    /\ mapping.items = <<>>
    /\ sheet_name \in DOMAIN parsed_data
    /\ Len(parsed_data[sheet_name]) = 2
    /\ mapped_data.status = "ok"

----------------------------------------------------------------------------
(* Properties of validate_transformed_data *)

\* a mapping without the key
Lacks(d, key) == d.t = "dict" /\ \A i \in 1..Len(d.items) : d.items[i][1] # key

\* the value of the key in a mapping that has it
ValueAt(d, key) == d.items[CHOOSE i \in 1..Len(d.items) : d.items[i][1] = key][2]

\* some FieldEntry of the list lacks fieldName or has a Values that is no list
BadFieldIn(fields) ==
    \E j \in 1..Len(fields) :
        \/ Lacks(fields[j], "fieldName")
        \/ /\ fields[j].t = "dict"
           /\ ~Lacks(fields[j], "Values")
           /\ ValueAt(fields[j], "Values").t # "list"

\* one of the defects of the claim is in the input
Malformed(td) ==
    \/ Lacks(td, "Document")
    \/ ValueAt(td, "Document").t # "list"
    \/ \E i \in 1..Len(ValueAt(td, "Document").elems) :
          LET doc == ValueAt(td, "Document").elems[i]
          IN  \/ Lacks(doc, "applicationName")
              \/ Lacks(doc, "formName")
              \/ Lacks(doc, "Fields")
              \/ /\ doc.t = "dict"
                 /\ ~Lacks(doc, "Fields")
                 /\ \/ ValueAt(doc, "Fields").t # "list"
                    \/ BadFieldIn(ValueAt(doc, "Fields").elems)

\* every Document and every FieldEntry of the input is a mapping
AllMappings(td) ==
    (~Lacks(td, "Document") /\ ValueAt(td, "Document").t = "list") =>
        \A i \in 1..Len(ValueAt(td, "Document").elems) :
            LET doc == ValueAt(td, "Document").elems[i]
            IN  /\ doc.t = "dict"
                /\ (~Lacks(doc, "Fields") /\ ValueAt(doc, "Fields").t = "list") =>
                      \A j \in 1..Len(ValueAt(doc, "Fields").elems) :
                          ValueAt(doc, "Fields").elems[j].t = "dict"

\* C7 (as claimed): validate_transformed_data returns false for every input
\* with one of the defects, whatever the rest of the input is.
InvC7 ==
    (pc = "validated" /\ Malformed(transformed_data.value)) =>
        is_valid = Ok(PBool(FALSE))

\* What holds of the code: an input with one of the defects is never
\* accepted, and it is rejected with false when its Documents and
\* FieldEntries are all mappings.
InvC7NeverAccepted ==
    (pc = "validated" /\ Malformed(transformed_data.value)) =>
        /\ is_valid # Ok(PBool(TRUE))
        /\ AllMappings(transformed_data.value) => is_valid = Ok(PBool(FALSE))

----------------------------------------------------------------------------
(* Properties of generate_curl_commands *)

\* how many fragments of a text are equal to frag
Occurrences(text, frag) == Cardinality({i \in 1..Len(text) : text[i] = frag})

\* the number of Documents of a container
DocumentCount(td) ==
    IF Lacks(td, "Document") THEN 0 ELSE Len(ValueAt(td, "Document").elems)

Generated == curl_commands.status = "ok"

\* C8: generate_curl_commands returns one call text when the container
\* holds one or more Documents, its single request body being the whole
\* container (one Document key, every Document in it), and no call text
\* when the container holds none.
InvC8 ==
    Generated =>
        LET n == DocumentCount(transformed_data.value)
            calls == curl_commands.value
        IN  IF n = 0 THEN calls = <<>>
            ELSE /\ Len(calls) = 1
                 /\ Occurrences(calls[1], "--data '") = 1
                 /\ Occurrences(calls[1], "\"Document\"") = 1
                 /\ Occurrences(calls[1], "\"applicationName\"") = n
                 /\ \E i \in 1..Len(calls[1]) :
                       /\ calls[1][i] = "--data '"
                       /\ calls[1][i + 1] = "{"
                       /\ calls[1][Len(calls[1]) - 1] = "}"
                       /\ \A j \in (i + 1)..Len(calls[1]) :
                             calls[1][j] # " \\\n  "

\* one call text was generated for two Documents
WitC8 ==
    /\ Generated
    /\ DocumentCount(transformed_data.value) = 2
    /\ Len(curl_commands.value) = 1

\* a credential that is a non-empty string
NonEmpty(v) == v.t = "text" /\ Len(v.codes) > 0

AuthFragment == "-H 'Authorization: Basic "

\* the number a base64 character stands for, 64 for the padding
SextetOf(ch) == CHOOSE n \in 0..64 : B64Alphabet[n + 1] = ch

\* the bytes that a sequence of base64 characters encodes
RECURSIVE B64Decode(_)
B64Decode(chars) ==
    IF Len(chars) < 4 THEN <<>>
    ELSE LET s1 == SextetOf(chars[1])
             s2 == SextetOf(chars[2])
             s3 == SextetOf(chars[3])
             s4 == SextetOf(chars[4])
             b1 == <<s1 * 4 + s2 \div 16>>
             b2 == IF s3 = 64 THEN <<>> ELSE <<(s2 % 16) * 16 + s3 \div 4>>
             b3 == IF s4 = 64 THEN <<>> ELSE <<(s3 % 4) * 64 + s4>>
         IN  b1 \o b2 \o b3 \o B64Decode(SubSeq(chars, 5, Len(chars)))

\* the credential of the Authorization header of a call text: the
\* characters between the header's start and the quote that ends it
CredentialOf(call) ==
    LET i == CHOOSE k \in 1..Len(call) : call[k] = AuthFragment
        e == CHOOSE k \in (i + 1)..Len(call) :
                 call[k] = "'" /\ \A h \in (i + 1)..(k - 1) : call[h] # "'"
    IN  SubSeq(call, i + 1, e - 1)

\* C9: the call text has an Authorization: Basic header exactly when
\* username and password are both non-empty strings, and then the header's
\* credential is the base64 encoding of username:password.
InvC9 ==
    (Generated /\ curl_commands.value # <<>>) =>
        LET call == curl_commands.value[1]
        IN  /\ Occurrences(call, AuthFragment) = 1
                <=> (NonEmpty(username) /\ NonEmpty(password))
            /\ Occurrences(call, AuthFragment) \in {0, 1}
            /\ Occurrences(call, AuthFragment) = 1 =>
                  B64Decode(CredentialOf(call))
                      = username.codes \o <<58>> \o password.codes

\* a call text with the header was generated, and the credential is padded
WitC9 ==
    /\ Generated
    /\ curl_commands.value # <<>>
    /\ Occurrences(curl_commands.value[1], AuthFragment) = 1
    /\ Len(username.codes) = 2
    /\ Len(password.codes) = 1

----------------------------------------------------------------------------
(* Properties of save_curl_commands *)

\* the script of the commands from the k-th on
RECURSIVE ScriptBlocks(_, _)
ScriptBlocks(cmds, k) ==
    IF k > Len(cmds) THEN <<>>
    ELSE <<"# API Call " \o ToString(k) \o "\n">> \o cmds[k] \o <<"\n\n">>
            \o ScriptBlocks(cmds, k + 1)

\* the script of a list of commands: interpreter line, header, and each
\* command after its numbered comment and before a blank line
ScriptOf(cmds) ==
    <<"#!/bin/bash\n", "# Generated API calls\n\n">> \o ScriptBlocks(cmds, 1)

IsPrefix(a, b) == Len(a) <= Len(b) /\ a = SubSeq(b, 1, Len(a))

Saving == pc \in {"save", "header", "commands", "chmod"}

\* C10: save_curl_commands writes nothing and changes no permission when
\* commands is empty; otherwise what it writes is, in order, the interpreter
\* line and header and then each command after its comment '# API Call k'
\* (k from 1) and before a blank line; the executable bit is set only once
\* all of it is written; and a failure ends the call with IOError.
PropC10 ==
    [][Saving =>
         /\ commands = <<>> => (script' = script /\ pc' = "saved" /\ raised' = "")
         /\ IsPrefix(script'.content, ScriptOf(commands)) \/ script' = script
         /\ pc # "save" => IsPrefix(script.content, script'.content)
         /\ script'.executable # script.executable =>
               /\ script.content = ScriptOf(commands)
               /\ script'.content = script.content
         /\ pc' = "saved" /\ commands # <<>> =>
               /\ script'.executable
               /\ script'.exists
               /\ script'.content = ScriptOf(commands)
         /\ pc' \notin {"save", "header", "commands", "chmod", "saved"} =>
               (pc' = "error" /\ raised' = "IOError")]_vars

\* two different commands were saved
WitC10 ==
    /\ pc = "saved"
    /\ Len(commands) = 2
    /\ commands[1] # commands[2]
    /\ script.executable
    /\ script.content = ScriptOf(commands)
    /\ raised = ""

----------------------------------------------------------------------------
(* Properties of generate_api_calls *)

\* the run is generating or saving the commands, or has done so
GenerationReached ==
    \/ pc \in {"generate", "save", "header", "commands", "chmod", "saved", "done"}
    \/ curl_commands.status # "none"
    \/ commands # <<>>

\* C4: the run generates and saves commands only after
\* validate_transformed_data returned true for the transformed data, which
\* does not change afterwards; when the validation does not return true the
\* run ends with an error, without a call text and without writing the file.
PropC4 ==
    /\ [](GenerationReached => is_valid = Ok(PBool(TRUE)))
    /\ [][is_valid.status # "none" =>
             (transformed_data' = transformed_data /\ is_valid' = is_valid)]_vars
    /\ [][script' # script => (is_valid = Ok(PBool(TRUE)) /\ Saving)]_vars
    /\ []((is_valid.status # "none" /\ is_valid # Ok(PBool(TRUE))) =>
             /\ pc = "error"
             /\ raised # ""
             /\ curl_commands = NotCalled)

\* a run validated its Documents, generated a command and saved it
WitC4 ==
    /\ pc = "done"
    /\ is_valid = Ok(PBool(TRUE))
    /\ DocumentCount(transformed_data.value) = 2
    /\ Len(curl_commands.value) = 1
    /\ script.content = ScriptOf(curl_commands.value)
    /\ script.executable

----------------------------------------------------------------------------
(* ExcelParser (excel_parser.py) *)

\* A DataFrame is its column labels and its rows of cells, every row with
\* one cell for each column.  The cells are strings, numbers and NaN, as
\* pd.read_excel yields them; a column has dtype object as soon as one of
\* its cells is a string, and float64 otherwise.
DataFrame(columns, rows) == [columns |-> columns, rows |-> rows]

\* df.empty: one of the two axes has length 0
empty(df) == Len(df.rows) = 0 \/ Len(df.columns) = 0

\* the dtype of column j of df
dtype(df, j) ==
    IF \E i \in 1..Len(df.rows) : df.rows[i][j].t = "str" THEN "object" ELSE "float64"

\* lines 106-118, without the test of the required columns when some of
\* them are present
_validate_dataframe_any_present(df) ==
    IF empty(df) THEN FALSE
    ELSE IF required_columns # <<>>
            /\ \A k \in 1..Len(required_columns) :
                  \A j \in 1..Len(df.columns) : df.columns[j] # required_columns[k]
    THEN FALSE
    ELSE TRUE

\* lines 106-118
_validate_dataframe(df) ==
    IF empty(df) THEN FALSE
    ELSE IF required_columns # <<>>
            /\ \E k \in 1..Len(required_columns) :
                  \A j \in 1..Len(df.columns) : df.columns[j] # required_columns[k]
    THEN FALSE
    ELSE TRUE

\* lines 90-93: false at the first table that fails
validate_data(dfs) == \A k \in 1..Len(dfs) : _validate_dataframe(dfs[k][2])

\* line 156, dropna(how='all'): the rows with a cell that is not NaN
dropna(rows) == SelectSeq(rows, LAMBDA r : \E j \in 1..Len(r) : ~isna(r[j]))

\* line 163: the cells of an object column become str(cell).strip()
StripCell(df, j, cell) ==
    IF dtype(df, j) = "object" THEN PStr(Strip(Str(cell))) ELSE cell

\* line 166, replace('', pd.NA)
ReplaceEmpty(cell) == IF cell = PStr("") THEN PNA ELSE cell

\* line 169, where(pd.notna(df), None): None in an object column; a float64
\* column holds no None and keeps its NaN
FillNone(df, j, cell) ==
    IF isna(cell) /\ dtype(df, j) = "object" THEN PNone ELSE cell

\* lines 153-171
_clean_dataframe(df) ==
    LET kept == dropna(df.rows)
    IN  DataFrame([j \in 1..Len(df.columns) |-> Strip(df.columns[j])],
                  [i \in 1..Len(kept) |->
                      [j \in 1..Len(df.columns) |->
                          FillNone(df, j, ReplaceEmpty(StripCell(df, j, kept[i][j])))]])

\* lines 130-136
clean_dataframes(dfs) ==
    [k \in 1..Len(dfs) |-> <<dfs[k][1], _clean_dataframe(dfs[k][2])>>]

\* line 198, df.to_dict(orient='records')
to_dict(df) ==
    [i \in 1..Len(df.rows) |->
        [j \in 1..Len(df.columns) |-> <<df.columns[j], df.rows[i][j]>>]]

\* lines 195-199: the rows of every sheet
Records(dfs) ==
    [s \in {dfs[k][1] : k \in 1..Len(dfs)} |->
        to_dict(dfs[CHOOSE k \in 1..Len(dfs) : dfs[k][1] = s][2])]

----------------------------------------------------------------------------
(* Inputs of ExcelParser *)

\* column labels as a sheet may give them: " x " carries whitespace
FrameColNames == <<"a", " x ", "b", "c">>

FrameCols(n) == SubSeq(FrameColNames, 1, n)

\* the cells of the first column: strings, blank or padded ones among them,
\* and missing cells and numbers
FirstCells == {PStr("x"), PStr(" x "), PStr(" "), PNaN, PInt(7)}

\* the cells of the other columns
OtherCells == {PNaN, PInt(7)}

\* rows of n cells
FrameRows(n) ==
    {[j \in 1..n |-> IF j = 1 THEN c ELSE o[j]] :
        c \in FirstCells, o \in [1..n -> OtherCells]}

\* the tables pd.read_excel may yield, with up to MaxCols columns and
\* MaxRows rows
Frames ==
    UNION {UNION {{DataFrame(FrameCols(n), rows) : rows \in [1..m -> FrameRows(n)]} :
                     m \in 0..MaxRows} :
              n \in 1..(IF MaxCols < Len(FrameColNames) THEN MaxCols ELSE Len(FrameColNames))}

\* tables without columns, as DataFrame(index=range(m)) builds them
HollowFrames == {DataFrame(<<>>, [i \in 1..m |-> <<>>]) : m \in 0..MaxRows}

\* a few tables for the second sheet of a file
SmallFrames ==
    {DataFrame(<<"a">>, <<>>),
     DataFrame(<<"a">>, << <<PStr("x")>> >>),
     DataFrame(<<"b">>, << <<PInt(7)>> >>)}

\* the sheets of a file: one sheet, or two small ones
Workbooks ==
    {<< <<"Sheet1", df>> >> : df \in Frames}
        \cup {<< <<"Sheet1", d1>>, <<"Sheet2", d2>> >> : d1, d2 \in SmallFrames}

\* what validate_data may be given
ValidateDataInputs ==
    Workbooks \cup {<< <<"Sheet1", df>> >> : df \in HollowFrames}

\* values of required_columns
RequiredColumns == {<<>>, <<"a">>, <<"x">>, <<"a", "b">>}

----------------------------------------------------------------------------
(* parse_excel, stage by stage *)

\* line 185: the file is read
ReadExcelFile ==
    /\ pc = "read_excel_file"
    /\ \E dfs \in Workbooks : dataframes' = dfs
    /\ pc' = "validate_data"
    /\ UNCHANGED <<api, store, parsed_data, raised, required_columns, data_valid,
                   cleaned_dfs, converter, input_data, cleaned_data,
                   flattened, json_data, json_valid, output_path, out_file>>

\* lines 48-49 and 76-78: the file is missing or cannot be read
ReadExcelFileFail ==
    /\ pc = "read_excel_file"
    /\ raised' \in {"FileNotFoundError", "ValueError"}
    /\ pc' = "error"
    /\ UNCHANGED <<api, store, parsed_data, conv>>

\* lines 188-189 made fatal: the run stops when validation fails
AfterValidateDataFatal(valid) == IF valid THEN "clean_dataframes" ELSE "error"

\* lines 188-189: a failed validation is logged and the run goes on
AfterValidateData(valid) == "clean_dataframes"

\* line 188
ValidateData ==
    /\ pc = "validate_data"
    /\ data_valid' = Ok(PBool(validate_data(dataframes)))
    /\ pc' = AfterValidateData(validate_data(dataframes))
    /\ UNCHANGED <<api, store, parsed_data, raised, dataframes, required_columns,
                   cleaned_dfs, converter, input_data, cleaned_data,
                   flattened, json_data, json_valid, output_path, out_file>>

\* line 192
CleanDataframes ==
    /\ pc = "clean_dataframes"
    /\ cleaned_dfs' = Ok(clean_dataframes(dataframes))
    /\ pc' = "to_dict"
    /\ UNCHANGED <<api, store, parsed_data, raised, dataframes, required_columns,
                   data_valid, converter, input_data, cleaned_data,
                   flattened, json_data, json_valid, output_path, out_file>>

\* lines 195-201
ToDict ==
    /\ pc = "to_dict"
    /\ parsed_data' = Records(cleaned_dfs.value)
    /\ pc' = "parsed"
    /\ UNCHANGED <<api, store, raised, conv>>

InitParse ==
    /\ pc = "read_excel_file"
    /\ raised = ""
    /\ ApiIdle
    /\ parsed_data = <<>>
    /\ dataframes = <<>>
    /\ required_columns \in RequiredColumns
    /\ data_valid = NotCalled
    /\ cleaned_dfs = NotCalled
    /\ converter = [date_format |-> <<>>, flatten |-> FALSE]
    /\ input_data = PNone
    /\ cleaned_data = NotCalled
    /\ flattened = NotCalled
    /\ json_data = NotCalled
    /\ json_valid = NotCalled
    /\ output_path = FALSE
    /\ out_file = [exists |-> FALSE, content |-> <<>>]

NextParse ==
    \/ ReadExcelFile
    \/ ReadExcelFileFail
    \/ ValidateData
    \/ CleanDataframes
    \/ ToDict

\* every stage runs to completion before the next begins
SpecParse == InitParse /\ [][NextParse]_vars /\ WF_vars(NextParse)

----------------------------------------------------------------------------
(* validate_data called on tables *)

InitValidateData ==
    /\ pc = "validate_data"
    /\ raised = ""
    /\ ApiIdle
    /\ parsed_data = <<>>
    /\ dataframes \in ValidateDataInputs
    /\ required_columns \in RequiredColumns
    /\ data_valid = NotCalled
    /\ cleaned_dfs = NotCalled
    /\ converter = [date_format |-> <<>>, flatten |-> FALSE]
    /\ input_data = PNone
    /\ cleaned_data = NotCalled
    /\ flattened = NotCalled
    /\ json_data = NotCalled
    /\ json_valid = NotCalled
    /\ output_path = FALSE
    /\ out_file = [exists |-> FALSE, content |-> <<>>]

NextValidateData == ValidateData

SpecValidateData == InitValidateData /\ [][NextValidateData]_vars

----------------------------------------------------------------------------
(* clean_dataframes called on tables *)

InitClean ==
    /\ pc = "clean_dataframes"
    /\ raised = ""
    /\ ApiIdle
    /\ parsed_data = <<>>
    /\ dataframes \in Workbooks
    /\ required_columns = <<>>
    /\ data_valid = NotCalled
    /\ cleaned_dfs = NotCalled
    /\ converter = [date_format |-> <<>>, flatten |-> FALSE]
    /\ input_data = PNone
    /\ cleaned_data = NotCalled
    /\ flattened = NotCalled
    /\ json_data = NotCalled
    /\ json_valid = NotCalled
    /\ output_path = FALSE
    /\ out_file = [exists |-> FALSE, content |-> <<>>]

NextClean == CleanDataframes

SpecClean == InitClean /\ [][NextClean]_vars

----------------------------------------------------------------------------
(* Properties of ExcelParser *)

Cleaned == pc = "to_dict" /\ cleaned_dfs.status = "ok"

\* the rows of a table with a cell that is no MissingValue
RowsWithData(df) ==
    SelectSeq(df.rows, LAMBDA r : \E j \in 1..Len(r) : ~IsMissing(r[j]))

\* C11: after _clean_dataframe no row of the cleaned table consists entirely
\* of MissingValue cells (null, NaN, empty or whitespace-only strings): the
\* rows kept are the rows with at least one non-missing cell, in their
\* original order.
InvC11 ==
    Cleaned =>
        \A k \in 1..Len(dataframes) :
            LET df == dataframes[k][2]
                out == cleaned_dfs.value[k][2]
                kept == RowsWithData(df)
            IN  /\ \A i \in 1..Len(out.rows) :
                      \E j \in 1..Len(out.rows[i]) : ~IsMissing(out.rows[i][j])
                /\ Len(out.rows) = Len(kept)
                /\ \A i \in 1..Len(kept) : \A j \in 1..Len(kept[i]) :
                      (kept[i][j].t = "str" /\ ~IsMissing(kept[i][j]))
                          => out.rows[i][j] = PStr(Strip(kept[i][j].s))

\* the rows of a table that are not entirely null or NaN
RowsNotNull(df) ==
    SelectSeq(df.rows, LAMBDA r : \E j \in 1..Len(r) : r[j].t \notin {"none", "nan"})

\* a cell and what it is normalized to
Normalized(cell, out) ==
    CASE cell.t = "str" ->
            IF Strip(cell.s) = "" THEN out.t \in {"none", "nan"}
            ELSE out = PStr(Strip(cell.s))
      [] cell.t \in {"none", "nan"} -> out.t \in {"none", "nan"}
      [] OTHER -> out = cell

\* C12: _clean_dataframe normalizes each cell of a kept row: a string is
\* trimmed, a string that is empty after trimming becomes MissingValue, a
\* MissingValue cell stays MissingValue (never a non-empty string), and
\* every other cell keeps its value.
InvC12 ==
    Cleaned =>
        \A k \in 1..Len(dataframes) :
            LET kept == RowsNotNull(dataframes[k][2])
                out == cleaned_dfs.value[k][2]
            IN  /\ Len(out.rows) = Len(kept)
                /\ \A i \in 1..Len(kept) : \A j \in 1..Len(kept[i]) :
                      Normalized(kept[i][j], out.rows[i][j])

Validated == pc = "clean_dataframes" /\ data_valid # NotCalled

\* a required column is absent from the columns of df
LacksRequired(df) ==
    /\ required_columns # <<>>
    /\ \E k \in 1..Len(required_columns) :
          \A j \in 1..Len(df.columns) : df.columns[j] # required_columns[k]

\* C13 (as claimed): validate_data returns false, without raising, exactly
\* when some table has zero rows or lacks a required column, and true
\* otherwise.
InvC13 ==
    Validated =>
        /\ data_valid.status = "ok"
        /\ data_valid.value = PBool(FALSE) <=>
              \E k \in 1..Len(dataframes) :
                  \/ Len(dataframes[k][2].rows) = 0
                  \/ LacksRequired(dataframes[k][2])

\* C13 (amended): validate_data returns false, without raising, exactly when
\* some table has zero rows or zero columns or lacks a required column, and
\* true otherwise.
InvC13Amended ==
    Validated =>
        /\ data_valid.status = "ok"
        /\ data_valid.value \in {PBool(FALSE), PBool(TRUE)}
        /\ data_valid.value = PBool(FALSE) <=>
              \E k \in 1..Len(dataframes) :
                  \/ Len(dataframes[k][2].rows) = 0
                  \/ Len(dataframes[k][2].columns) = 0
                  \/ LacksRequired(dataframes[k][2])

\* a table with rows and one of two required columns failed validation
WitC13 ==
    /\ Validated
    /\ data_valid = Ok(PBool(FALSE))
    /\ required_columns = <<"a", "b">>
    /\ \A k \in 1..Len(dataframes) :
          /\ Len(dataframes[k][2].rows) > 0
          /\ \E j \in 1..Len(dataframes[k][2].columns) : dataframes[k][2].columns[j] = "a"

\* the stages of parse_excel in the order they run
ParseStages == <<"read_excel_file", "validate_data", "clean_dataframes", "to_dict", "parsed">>

----------------------------------------------------------------------------
(* JSONConverter (json_converter.py) *)

\* The data given to the converter: a str is PText, the sequence of its
\* character codes, and the keys of a dict are values too (a key may be
\* None).  A JSON text is the sequence of its character codes.

\* a datetime.date
PDate(y, m, d) == [t |-> "date", y |-> y, m |-> m, d |-> d]

\* a value of a type json does not know and pd.isna does not hold missing
PSet == [t |-> "set"]

\* the decimal digits of a natural number
RECURSIVE Digits(_)
Digits(n) == IF n < 10 THEN <<48 + n>> ELSE Digits(n \div 10) \o <<48 + (n % 10)>>

\* str(n) for an integer
IntText(n) == IF n < 0 THEN <<45>> \o Digits(0 - n) ELSE Digits(n)

\* n in at least width digits
RECURSIVE ZeroPad(_, _)
ZeroPad(codes, width) ==
    IF Len(codes) >= width THEN codes ELSE ZeroPad(<<48>> \o codes, width)

\* obj.strftime(fmt) with the directives %Y, %m and %d, from position i of fmt
RECURSIVE strftime(_, _, _)
strftime(obj, fmt, i) ==
    IF i > Len(fmt) THEN <<>>
    ELSE IF fmt[i] = 37 /\ i < Len(fmt) /\ fmt[i + 1] \in {89, 109, 100}
    THEN (CASE fmt[i + 1] = 89 -> ZeroPad(Digits(obj.y), 4)
            [] fmt[i + 1] = 109 -> ZeroPad(Digits(obj.m), 2)
            [] fmt[i + 1] = 100 -> ZeroPad(Digits(obj.d), 2))
            \o strftime(obj, fmt, i + 2)
    ELSE <<fmt[i]>> \o strftime(obj, fmt, i + 1)

\* lines 67-75: the default hook of json.dumps
_json_serializer(obj) ==
    IF obj.t = "date" THEN Ok(PText(strftime(obj, converter.date_format, 1)))
    ELSE IF isna(obj) THEN Ok(PNone)
    ELSE Raise("TypeError")

\* the types json.dumps encodes without its default hook
Native(v) == v.t \in {"text", "int", "bool", "none", "nan", "list", "dict"}

\* the types json.dumps accepts as dict keys
KeyOk(k) == k.t \in {"text", "int", "bool", "none", "nan"}

\* json.dumps raises: a key of another type, or a value the hook rejects
RECURSIVE DumpFails(_)
DumpFails(v) ==
    CASE v.t = "dict" ->
            \E i \in 1..Len(v.items) : ~KeyOk(v.items[i][1]) \/ DumpFails(v.items[i][2])
      [] v.t = "list" -> \E i \in 1..Len(v.elems) : DumpFails(v.elems[i])
      [] Native(v) -> FALSE
      [] OTHER -> _json_serializer(v).status = "raise"
                     \/ DumpFails(_json_serializer(v).value)

\* a character inside a JSON string, escaped as ensure_ascii=False does,
\* without the escape of the quotation mark
EscapeCharNoQuote(c) ==
    CASE c = 92 -> <<92, 92>>
      [] c = 10 -> <<92, 110>>
      [] OTHER -> <<c>>

\* a character inside a JSON string, escaped as ensure_ascii=False does
EscapeChar(c) ==
    CASE c = 34 -> <<92, 34>>
      [] c = 92 -> <<92, 92>>
      [] c = 10 -> <<92, 110>>
      [] OTHER -> <<c>>

RECURSIVE EscapeFrom(_, _)
EscapeFrom(codes, i) ==
    IF i > Len(codes) THEN <<>> ELSE EscapeChar(codes[i]) \o EscapeFrom(codes, i + 1)

\* a str as a JSON string
JsonString(codes) == <<34>> \o EscapeFrom(codes, 1) \o <<34>>

\* a line break and the indentation of a nesting level (indent=2)
RECURSIVE NewLine(_)
NewLine(level) == IF level = 0 THEN <<10>> ELSE NewLine(level - 1) \o <<32, 32>>

\* a dict key as json.dumps writes it
KeyText(k) ==
    CASE k.t = "text" -> k.codes
      [] k.t = "int" -> IntText(k.n)
      [] k.t = "bool" -> IF k.b THEN <<116, 114, 117, 101>> ELSE <<102, 97, 108, 115, 101>>
      [] k.t = "none" -> <<110, 117, 108, 108>>
      [] k.t = "nan" -> <<78, 97, 78>>

\* json.dumps(v, indent=2, default=_json_serializer, ensure_ascii=False) at
\* a nesting level
RECURSIVE JsonDumps(_, _), JsonDumpElems(_, _, _), JsonDumpItems(_, _, _)
JsonDumps(v, level) ==
    CASE v.t = "text" -> JsonString(v.codes)
      [] v.t = "int" -> IntText(v.n)
      [] v.t = "bool" -> IF v.b THEN <<116, 114, 117, 101>> ELSE <<102, 97, 108, 115, 101>>
      [] v.t = "none" -> <<110, 117, 108, 108>>
      [] v.t = "nan" -> <<78, 97, 78>>
      [] v.t = "list" ->
            IF v.elems = <<>> THEN <<91, 93>>
            ELSE <<91>> \o JsonDumpElems(v.elems, 1, level + 1) \o NewLine(level) \o <<93>>
      [] v.t = "dict" ->
            IF v.items = <<>> THEN <<123, 125>>
            ELSE <<123>> \o JsonDumpItems(v.items, 1, level + 1) \o NewLine(level) \o <<125>>
      [] OTHER -> JsonDumps(_json_serializer(v).value, level)

JsonDumpElems(elems, i, level) ==
    IF i > Len(elems) THEN <<>>
    ELSE NewLine(level) \o JsonDumps(elems[i], level)
            \o (IF i < Len(elems) THEN <<44>> ELSE <<>>)
            \o JsonDumpElems(elems, i + 1, level)

JsonDumpItems(items, i, level) ==
    IF i > Len(items) THEN <<>>
    ELSE NewLine(level) \o JsonString(KeyText(items[i][1])) \o <<58, 32>>
            \o JsonDumps(items[i][2], level)
            \o (IF i < Len(items) THEN <<44>> ELSE <<>>)
            \o JsonDumpItems(items, i + 1, level)

\* lines 45-54: any exception of json.dumps is raised as ValueError
convert_to_json(v) ==
    IF DumpFails(v) THEN Raise("ValueError") ELSE Ok(PText(JsonDumps(v, 0)))

----------------------------------------------------------------------------
(* json.loads, as validate_json calls it *)

\* the character at position i of a text, 0 past its end
At(text, i) == IF i <= Len(text) THEN text[i] ELSE 0

\* the first position from i on that holds no white space
RECURSIVE SkipWs(_, _)
SkipWs(text, i) == IF At(text, i) \in {32, 10} THEN SkipWs(text, i + 1) ELSE i

\* the text has word at position i
HasWord(text, i, word) ==
    /\ i + Len(word) - 1 <= Len(text)
    /\ SubSeq(text, i, i + Len(word) - 1) = word

\* what a parsing step gives: a value and the position after it
Parsed(v, next) == [ok |-> TRUE, v |-> v, next |-> next]

ParseError == [ok |-> FALSE, v |-> PNone, next |-> 0]

\* the characters of a string up to its closing quotation mark
RECURSIVE ParseString(_, _, _)
ParseString(text, i, acc) ==
    LET c == At(text, i)
    IN  CASE c = 34 -> Parsed(acc, i + 1)
          [] c = 92 ->
                (CASE At(text, i + 1) = 34 -> ParseString(text, i + 2, Append(acc, 34))
                   [] At(text, i + 1) = 92 -> ParseString(text, i + 2, Append(acc, 92))
                   [] At(text, i + 1) = 110 -> ParseString(text, i + 2, Append(acc, 10))
                   [] OTHER -> ParseError)
          [] c < 32 -> ParseError
          [] OTHER -> ParseString(text, i + 1, Append(acc, c))

\* the digits of a number
RECURSIVE ParseDigits(_, _, _)
ParseDigits(text, i, acc) ==
    IF At(text, i) \in 48..57
    THEN ParseDigits(text, i + 1, 10 * acc + (At(text, i) - 48))
    ELSE Parsed(acc, i)

RECURSIVE ParseValue(_, _), ParseElems(_, _, _), ParseItems(_, _, _)
ParseValue(text, from) ==
    LET i == SkipWs(text, from)
        c == At(text, i)
    IN  CASE c = 123 -> ParseItems(text, i + 1, <<>>)
          [] c = 91 -> ParseElems(text, i + 1, <<>>)
          [] c = 34 ->
                LET r == ParseString(text, i + 1, <<>>)
                IN  IF r.ok THEN Parsed(PText(r.v), r.next) ELSE ParseError
          [] c \in 48..57 ->
                LET r == ParseDigits(text, i, 0)
                IN  Parsed(PInt(r.v), r.next)
          [] c = 45 /\ At(text, i + 1) \in 48..57 ->
                LET r == ParseDigits(text, i + 1, 0)
                IN  Parsed(PInt(0 - r.v), r.next)
          [] HasWord(text, i, <<116, 114, 117, 101>>) -> Parsed(PBool(TRUE), i + 4)
          [] HasWord(text, i, <<102, 97, 108, 115, 101>>) -> Parsed(PBool(FALSE), i + 5)
          [] HasWord(text, i, <<110, 117, 108, 108>>) -> Parsed(PNone, i + 4)
          [] HasWord(text, i, <<78, 97, 78>>) -> Parsed(PNaN, i + 3)
          [] OTHER -> ParseError

\* the elements of an array after its bracket or after a comma
ParseElems(text, from, acc) ==
    LET i == SkipWs(text, from)
    IN  IF At(text, i) = 93 /\ acc = <<>> THEN Parsed(PList(<<>>), i + 1)
        ELSE LET r == ParseValue(text, i)
                 j == SkipWs(text, r.next)
             IN  IF ~r.ok THEN ParseError
                 ELSE CASE At(text, j) = 44 -> ParseElems(text, j + 1, Append(acc, r.v))
                        [] At(text, j) = 93 -> Parsed(PList(Append(acc, r.v)), j + 1)
                        [] OTHER -> ParseError

\* the members of an object after its brace or after a comma; a key met
\* twice keeps its place and takes the later value
ParseItems(text, from, acc) ==
    LET i == SkipWs(text, from)
    IN  IF At(text, i) = 125 /\ acc = <<>> THEN Parsed(PDict(<<>>), i + 1)
        ELSE IF At(text, i) # 34 THEN ParseError
        ELSE LET k == ParseString(text, i + 1, <<>>)
                 colon == SkipWs(text, k.next)
                 r == ParseValue(text, colon + 1)
                 j == SkipWs(text, r.next)
             IN  IF ~k.ok \/ At(text, colon) # 58 \/ ~r.ok THEN ParseError
                 ELSE CASE At(text, j) = 44 ->
                             ParseItems(text, j + 1, DictSet(acc, PText(k.v), r.v))
                        [] At(text, j) = 125 ->
                             Parsed(PDict(DictSet(acc, PText(k.v), r.v)), j + 1)
                        [] OTHER -> ParseError

\* json.loads(text)
loads(text) ==
    LET r == ParseValue(text, 1)
    IN  IF r.ok /\ SkipWs(text, r.next) = Len(text) + 1 THEN Ok(r.v)
        ELSE Raise("JSONDecodeError")

\* lines 110-115
validate_json(json_text) == Ok(PBool(loads(json_text.codes).status = "ok"))

----------------------------------------------------------------------------
(* clean_json_data and flatten_json *)

\* lines 127-137
RECURSIVE clean_json_data(_)
clean_json_data(v) ==
    CASE v.t = "dict" ->
            LET kept == SelectSeq(v.items, LAMBDA p : p[1] # PNone)
            IN  PDict([i \in 1..Len(kept) |-> <<kept[i][1], clean_json_data(kept[i][2])>>])
      [] v.t = "list" ->
            LET kept == SelectSeq(v.elems, LAMBDA e : e # PNone)
            IN  PList([i \in 1..Len(kept) |-> clean_json_data(kept[i])])
      [] isna(v) -> PNone
      [] OTHER -> v

\* what an f-string renders a key as
Format(k) ==
    CASE k.t = "text" -> k.codes
      [] k.t = "int" -> IntText(k.n)
      [] k.t = "none" -> <<78, 111, 110, 101>>
      [] k.t = "nan" -> <<110, 97, 110>>
      [] k.t = "bool" -> IF k.b THEN <<84, 114, 117, 101>> ELSE <<70, 97, 108, 115, 101>>

\* the separator of flatten_json: "_"
separator == <<95>>

\* lines 155 and 159 with the separator left out
NewKeyUnseparated(parent_key, key) ==
    IF Truthy(parent_key) THEN PText(Format(parent_key) \o Format(key))
    ELSE key

\* lines 155 and 159: the key under parent_key; at the top (parent_key is
\* falsy) the key itself
NewKey(parent_key, key) ==
    IF Truthy(parent_key) THEN PText(Format(parent_key) \o separator \o Format(key))
    ELSE key

\* lines 152-162: result after _flatten(current_data, parent_key)
RECURSIVE _flatten(_, _, _), FlattenItems(_, _, _, _), FlattenElems(_, _, _, _)
_flatten(current_data, parent_key, result) ==
    CASE current_data.t = "dict" -> FlattenItems(current_data.items, 1, parent_key, result)
      [] current_data.t = "list" -> FlattenElems(current_data.elems, 1, parent_key, result)
      [] OTHER -> DictSet(result, parent_key, current_data)

FlattenItems(items, i, parent_key, result) ==
    IF i > Len(items) THEN result
    ELSE FlattenItems(items, i + 1, parent_key,
                      _flatten(items[i][2], NewKey(parent_key, items[i][1]), result))

\* at the top of the data the key of an element is str(i)
FlattenElems(elems, i, parent_key, result) ==
    IF i > Len(elems) THEN result
    ELSE FlattenElems(elems, i + 1, parent_key,
                      _flatten(elems[i],
                               IF Truthy(parent_key)
                               THEN NewKey(parent_key, PInt(i - 1))
                               ELSE PText(IntText(i - 1)),
                               result))

\* lines 150-165
flatten_json(v) == PDict(_flatten(v, PText(<<>>), <<>>))

\* lines 182-186: flattening when configured, of a dict or of a list of dicts
Flattened(v) ==
    IF ~converter.flatten THEN v
    ELSE IF v.t = "dict" THEN flatten_json(v)
    ELSE IF v.t = "list" /\ \A i \in 1..Len(v.elems) : v.elems[i].t = "dict"
    THEN PList([i \in 1..Len(v.elems) |-> flatten_json(v.elems[i])])
    ELSE v

----------------------------------------------------------------------------
(* Inputs of JSONConverter *)

\* the deepest nesting of the data given to the converter
MaxDepth == 2

\* "a", "b", the empty str, and a str with a quotation mark, a backslash, a
\* line feed and a letter that is not ASCII
TextA == PText(<<97>>)

TextB == PText(<<98>>)

TextEmpty == PText(<<>>)

TextEscapes == PText(<<113, 34, 92, 10, 233>>)

\* date(2024, 1, 5)
ADate == PDate(2024, 1, 5)

\* "%Y-%m-%d", the default, and "%d/%m/%Y"
IsoFormat == <<37, 89, 45, 37, 109, 45, 37, 100>>

DayFirstFormat == <<37, 100, 47, 37, 109, 47, 37, 89>>

\* nested data of depth up to d: the scalars of S, lists of one element and
\* of two (the second in S2), dicts of one entry and of two (the second
\* with a value in S2), with keys in K
RECURSIVE JsonValues(_, _, _, _)
JsonValues(S, S2, K, d) ==
    IF d = 0 THEN S
    ELSE LET sub == JsonValues(S, S2, K, d - 1)
         IN  S \cup {PList(<<>>), PDict(<<>>)}
               \cup {PList(<<v>>) : v \in sub}
               \cup {PList(<<v, s>>) : v \in sub, s \in S2}
               \cup {PDict(<< <<k, v>> >>) : k \in K, v \in sub}
               \cup {PDict(<< <<k[1], v>>, <<k[2], s>> >>) :
                        k \in {p \in K \X K : p[1] # p[2]}, v \in sub, s \in S2}

\* what convert_to_json may be given: JSON-native scalars, missing values,
\* a date and a value of an unknown type
ConvertInputs(d) ==
    JsonValues({TextA, TextEscapes, PInt(7), PInt(0 - 12), PBool(TRUE), PNone,
                PNaN, PNA, ADate, PSet},
               {PInt(7), PSet}, {TextA, TextEscapes}, d)

\* what clean_json_data may be given: None keys, None and NaN elements
CleanInputs(d) ==
    JsonValues({TextA, PInt(7), PNone, PNaN, PNA}, {PNone, PInt(7)}, {TextA, PNone}, d)

\* "a_a" and "a_0": keys that hold the separator
TextAA == PText(<<97, 95, 97>>)

TextA0 == PText(<<97, 95, 48>>)

\* what flatten_json may be given: dicts; a key may be the empty str or 0,
\* the index of a sheet, or hold the separator
FlattenInputs(d) ==
    {v \in JsonValues({TextA, PInt(7), PNone}, {PInt(7)}, {TextA, TextEmpty, PInt(0)}, d)
              \cup JsonValues({TextA, PInt(7)}, {PInt(7)}, {TextA, TextAA, TextA0}, d) :
        v.t = "dict"}

\* what process_data may be given
ProcessInputs(d) ==
    JsonValues({TextA, PNaN, ADate, PSet}, {PInt(7)}, {TextA, TextB}, d)

\* the output file before the run, left by an earlier one
OldJson == [exists |-> TRUE, content |-> <<111, 108, 100>>]

----------------------------------------------------------------------------
(* convert_to_json, clean_json_data and flatten_json called on data *)

ConvertToJsonCall ==
    /\ pc = "call convert_to_json"
    /\ json_data' = convert_to_json(input_data)
    /\ pc' = "converted"
    /\ UNCHANGED <<api, store, parsed_data, raised, dataframes, required_columns,
                   data_valid, cleaned_dfs, converter, input_data,
                   cleaned_data, flattened, json_valid, output_path, out_file>>

InitConvert ==
    /\ pc = "call convert_to_json"
    /\ raised = ""
    /\ ApiIdle
    /\ parsed_data = <<>>
    /\ dataframes = <<>>
    /\ required_columns = <<>>
    /\ data_valid = NotCalled
    /\ cleaned_dfs = NotCalled
    /\ converter \in {[date_format |-> f, flatten |-> FALSE] : f \in {IsoFormat, DayFirstFormat}}
    /\ input_data \in ConvertInputs(MaxDepth)
    /\ cleaned_data = NotCalled
    /\ flattened = NotCalled
    /\ json_data = NotCalled
    /\ json_valid = NotCalled
    /\ output_path = FALSE
    /\ out_file = [exists |-> FALSE, content |-> <<>>]

NextConvert == ConvertToJsonCall

SpecConvert == InitConvert /\ [][NextConvert]_vars

CleanJsonDataCall ==
    /\ pc = "call clean_json_data"
    /\ cleaned_data' = Ok(clean_json_data(input_data))
    /\ pc' = "cleaned"
    /\ UNCHANGED <<api, store, parsed_data, raised, dataframes, required_columns,
                   data_valid, cleaned_dfs, converter, input_data, flattened,
                   json_data, json_valid, output_path, out_file>>

InitCleanJson ==
    /\ pc = "call clean_json_data"
    /\ raised = ""
    /\ ApiIdle
    /\ parsed_data = <<>>
    /\ dataframes = <<>>
    /\ required_columns = <<>>
    /\ data_valid = NotCalled
    /\ cleaned_dfs = NotCalled
    /\ converter = [date_format |-> IsoFormat, flatten |-> FALSE]
    /\ input_data \in CleanInputs(MaxDepth)
    /\ cleaned_data = NotCalled
    /\ flattened = NotCalled
    /\ json_data = NotCalled
    /\ json_valid = NotCalled
    /\ output_path = FALSE
    /\ out_file = [exists |-> FALSE, content |-> <<>>]

NextCleanJson == CleanJsonDataCall

SpecCleanJson == InitCleanJson /\ [][NextCleanJson]_vars

FlattenJsonCall ==
    /\ pc = "call flatten_json"
    /\ flattened' = Ok(flatten_json(input_data))
    /\ pc' = "flattened"
    /\ UNCHANGED <<api, store, parsed_data, raised, dataframes, required_columns,
                   data_valid, cleaned_dfs, converter, input_data,
                   cleaned_data, json_data, json_valid, output_path, out_file>>

InitFlatten ==
    /\ pc = "call flatten_json"
    /\ raised = ""
    /\ ApiIdle
    /\ parsed_data = <<>>
    /\ dataframes = <<>>
    /\ required_columns = <<>>
    /\ data_valid = NotCalled
    /\ cleaned_dfs = NotCalled
    /\ converter = [date_format |-> IsoFormat, flatten |-> TRUE]
    /\ input_data \in FlattenInputs(MaxDepth)
    /\ cleaned_data = NotCalled
    /\ flattened = NotCalled
    /\ json_data = NotCalled
    /\ json_valid = NotCalled
    /\ output_path = FALSE
    /\ out_file = [exists |-> FALSE, content |-> <<>>]

NextFlatten == FlattenJsonCall

SpecFlatten == InitFlatten /\ [][NextFlatten]_vars

----------------------------------------------------------------------------
(* process_data, stage by stage *)

\* line 179
CleanJsonData ==
    /\ pc = "clean_json_data"
    /\ cleaned_data' = Ok(clean_json_data(input_data))
    /\ pc' = "flatten"
    /\ UNCHANGED <<api, store, parsed_data, raised, dataframes, required_columns,
                   data_valid, cleaned_dfs, converter, input_data, flattened,
                   json_data, json_valid, output_path, out_file>>

\* lines 182-186
FlattenIfConfigured ==
    /\ pc = "flatten"
    /\ cleaned_data' = Ok(Flattened(cleaned_data.value))
    /\ pc' = "convert_to_json"
    /\ UNCHANGED <<api, store, parsed_data, raised, dataframes, required_columns,
                   data_valid, cleaned_dfs, converter, input_data, flattened,
                   json_data, json_valid, output_path, out_file>>

\* lines 189-197 without the validation of line 192
AfterConvertToJsonUnvalidated(j) ==
    IF j.status = "raise" THEN "error"
    ELSE IF output_path THEN "save_json" ELSE "returned"

\* lines 189-192: on to the validation unless convert_to_json raised
AfterConvertToJson(j) == IF j.status = "raise" THEN "error" ELSE "validate_json"

\* line 189
ConvertToJson ==
    /\ pc = "convert_to_json"
    /\ json_data' = convert_to_json(cleaned_data.value)
    /\ pc' = AfterConvertToJson(json_data')
    /\ raised' = json_data'.exc
    /\ UNCHANGED <<api, store, parsed_data, dataframes, required_columns, data_valid,
                   cleaned_dfs, converter, input_data, cleaned_data,
                   flattened, json_valid, output_path, out_file>>

\* lines 192-197
ValidateJson ==
    /\ pc = "validate_json"
    /\ json_valid' = validate_json(json_data.value)
    /\ IF json_valid' # Ok(PBool(TRUE))
       THEN pc' = "error" /\ raised' = "ValueError"
       ELSE pc' = (IF output_path THEN "save_json" ELSE "returned") /\ raised' = raised
    /\ UNCHANGED <<api, store, parsed_data, dataframes, required_columns, data_valid,
                   cleaned_dfs, converter, input_data, cleaned_data,
                   flattened, json_data, output_path, out_file>>

\* lines 90-93: the file is opened for writing, and so created or emptied
SaveJsonOpen ==
    /\ pc = "save_json"
    /\ out_file' = [exists |-> TRUE, content |-> <<>>]
    /\ pc' = "write"
    /\ UNCHANGED <<api, store, parsed_data, raised, dataframes, required_columns,
                   data_valid, cleaned_dfs, converter, input_data,
                   cleaned_data, flattened, json_data, json_valid, output_path>>

\* line 94
SaveJsonWrite ==
    /\ pc = "write"
    /\ out_file' = [exists |-> TRUE, content |-> json_data.value.codes]
    /\ pc' = "returned"
    /\ UNCHANGED <<api, store, parsed_data, raised, dataframes, required_columns,
                   data_valid, cleaned_dfs, converter, input_data,
                   cleaned_data, flattened, json_data, json_valid, output_path>>

\* lines 96-98: makedirs, open or write failed
SaveJsonFail ==
    /\ pc \in {"save_json", "write"}
    /\ raised' = "IOError"
    /\ pc' = "error"
    /\ UNCHANGED <<api, store, parsed_data, conv>>

InitProcess ==
    /\ pc = "clean_json_data"
    /\ raised = ""
    /\ ApiIdle
    /\ parsed_data = <<>>
    /\ dataframes = <<>>
    /\ required_columns = <<>>
    /\ data_valid = NotCalled
    /\ cleaned_dfs = NotCalled
    /\ converter \in {[date_format |-> IsoFormat, flatten |-> f] : f \in BOOLEAN}
    /\ input_data \in ProcessInputs(MaxDepth)
    /\ cleaned_data = NotCalled
    /\ flattened = NotCalled
    /\ json_data = NotCalled
    /\ json_valid = NotCalled
    /\ output_path \in BOOLEAN
    /\ out_file = OldJson

NextProcess ==
    \/ CleanJsonData
    \/ FlattenIfConfigured
    \/ ConvertToJson
    \/ ValidateJson
    \/ SaveJsonOpen
    \/ SaveJsonWrite
    \/ SaveJsonFail

SpecProcess == InitProcess /\ [][NextProcess]_vars

----------------------------------------------------------------------------
(* Properties of process_data *)

\* the stages of process_data in the order they run
ProcessStages ==
    <<"clean_json_data", "flatten", "convert_to_json", "validate_json", "save_json", "write">>

\* C15: process_data runs clean, flatten (a change of the data only when
\* configured), serialize, validation by reparsing and the optional write
\* in that order; the output file changes only after the reparse succeeded;
\* when the serialization or the reparse fails, ValueError is raised and
\* the output file is left as it was.
PropC15 ==
    /\ [][\A n \in 2..Len(ProcessStages) :
             pc' = ProcessStages[n] => pc = ProcessStages[n - 1]]_vars
    /\ [][(pc = "flatten" /\ ~converter.flatten) => cleaned_data' = cleaned_data]_vars
    /\ [][pc' = "returned" =>
             /\ json_valid = Ok(PBool(TRUE)) \/ json_valid' = Ok(PBool(TRUE))
             /\ output_path => out_file' = [exists |-> TRUE, content |-> json_data.value.codes]]_vars
    /\ [][out_file' # out_file =>
             /\ pc \in {"save_json", "write"}
             /\ json_valid = Ok(PBool(TRUE))
             /\ loads(json_data.value.codes).status = "ok"
             /\ output_path]_vars
    /\ [][raised' = "ValueError" => out_file' = OldJson]_vars
    /\ []((json_data.status = "raise" \/ json_valid = Ok(PBool(FALSE)))
             => (pc = "error" /\ raised = "ValueError" /\ out_file = OldJson))

\* flattened data with a date in it was written to the file
WitC15 ==
    /\ pc = "returned"
    /\ converter.flatten
    /\ cleaned_data.value # clean_json_data(input_data)
    /\ \E i \in 1..Len(cleaned_data.value.items) : cleaned_data.value.items[i][2] = ADate
    /\ json_valid = Ok(PBool(TRUE))
    /\ out_file = [exists |-> TRUE, content |-> json_data.value.codes]

\* the serialization failed and the file is as it was
WitC15Failure ==
    /\ pc = "error"
    /\ raised = "ValueError"
    /\ output_path
    /\ out_file = OldJson

----------------------------------------------------------------------------
(* Properties of convert_to_json *)

Converted == pc = "converted"

\* mappings with string keys, sequences and string, integer, boolean, null
RECURSIVE IsJsonNative(_)
IsJsonNative(v) ==
    CASE v.t = "dict" ->
            \A i \in 1..Len(v.items) :
                v.items[i][1].t = "text" /\ IsJsonNative(v.items[i][2])
      [] v.t = "list" -> \A i \in 1..Len(v.elems) : IsJsonNative(v.elems[i])
      [] OTHER -> v.t \in {"text", "int", "bool", "none"}

\* C16: for data built from mappings with string keys, sequences and
\* JSON-native scalars (string, integer, boolean, null), reparsing the text
\* returned by convert_to_json yields a structure equal to the data.
InvC16 ==
    (Converted /\ IsJsonNative(input_data)) =>
        /\ json_data.status = "ok"
        /\ loads(json_data.value.codes) = Ok(input_data)

\* a dict with a list in it and strings that need escaping was converted
WitC16 ==
    /\ Converted
    /\ input_data = PDict(<< <<TextEscapes, PList(<<TextEscapes, PInt(7)>>)>>,
                             <<TextA, PInt(7)>> >>)
    /\ loads(json_data.value.codes) = Ok(input_data)

\* a scalar that is neither JSON-native, temporal nor missing, at any depth
RECURSIVE HasOtherType(_)
HasOtherType(v) ==
    CASE v.t = "dict" -> \E i \in 1..Len(v.items) : HasOtherType(v.items[i][2])
      [] v.t = "list" -> \E i \in 1..Len(v.elems) : HasOtherType(v.elems[i])
      [] OTHER -> v.t \notin {"text", "int", "bool", "none", "nan", "NA", "date"}

\* date(2024, 1, 5) in the configured format
ADateText ==
    IF converter.date_format = IsoFormat
    THEN PText(<<50, 48, 50, 52, 45, 48, 49, 45, 48, 53>>)
    ELSE PText(<<48, 53, 47, 48, 49, 47, 50, 48, 50, 52>>)

\* the data with every temporal value as its string and every missing
\* value as null
RECURSIVE Rendered(_)
Rendered(v) ==
    CASE v.t = "dict" ->
            PDict([i \in 1..Len(v.items) |-> <<v.items[i][1], Rendered(v.items[i][2])>>])
      [] v.t = "list" -> PList([i \in 1..Len(v.elems) |-> Rendered(v.elems[i])])
      [] v.t = "date" -> ADateText
      [] v.t \in {"none", "nan", "NA"} -> PNone
      [] OTHER -> v

\* C17: when convert_to_json meets a scalar at any depth, a temporal value
\* is rendered as a string in the configured date format and a MissingValue
\* as JSON null; any other non-native type makes the call fail with no
\* JSON text returned.
InvC17 ==
    Converted =>
        IF HasOtherType(input_data) THEN json_data.status = "raise"
        ELSE /\ json_data.status = "ok"
             /\ loads(json_data.value.codes) = Ok(Rendered(input_data))

\* the data holds a NaN at some depth
RECURSIVE HasNaN(_)
HasNaN(v) ==
    CASE v.t = "dict" -> \E i \in 1..Len(v.items) : HasNaN(v.items[i][2])
      [] v.t = "list" -> \E i \in 1..Len(v.elems) : HasNaN(v.elems[i])
      [] OTHER -> v.t = "nan"

\* what C17 says holds of all data without a NaN
InvC17WithoutNaN == HasNaN(input_data) \/ InvC17

----------------------------------------------------------------------------
(* Properties of clean_json_data *)

CleanedJson == pc = "cleaned"

MissingScalar(v) == v.t \in {"none", "nan", "NA"}

\* out is v without its null keys and its missing elements, with null for
\* every missing value, and everything else as it was
RECURSIVE CleanOf(_, _)
CleanOf(v, out) ==
    CASE v.t = "dict" ->
            LET kept == SelectSeq(v.items, LAMBDA p : p[1] # PNone)
            IN  /\ out.t = "dict"
                /\ Len(out.items) = Len(kept)
                /\ \A i \in 1..Len(kept) :
                      /\ i <= Len(out.items)
                      /\ out.items[i][1] = kept[i][1]
                      /\ CleanOf(kept[i][2], out.items[i][2])
      [] v.t = "list" ->
            LET kept == SelectSeq(v.elems, LAMBDA e : ~MissingScalar(e))
            IN  /\ out.t = "list"
                /\ Len(out.elems) = Len(kept)
                /\ \A i \in 1..Len(kept) :
                      i <= Len(out.elems) /\ CleanOf(kept[i], out.elems[i])
      [] MissingScalar(v) -> out = PNone
      [] OTHER -> out = v

\* no null key, no null element, no missing value that is not null
RECURSIVE NullFree(_)
NullFree(v) ==
    CASE v.t = "dict" ->
            \A i \in 1..Len(v.items) :
                v.items[i][1] # PNone /\ NullFree(v.items[i][2])
      [] v.t = "list" ->
            \A i \in 1..Len(v.elems) : v.elems[i] # PNone /\ NullFree(v.elems[i])
      [] OTHER -> v.t \notin {"nan", "NA"}

\* C18: clean_json_data returns a structure in which, at every depth, no
\* mapping has a null key, no sequence has a null element and every
\* MissingValue scalar is null; all other entries keep their value and
\* relative order.
InvC18 ==
    CleanedJson =>
        /\ NullFree(cleaned_data.value)
        /\ CleanOf(input_data, cleaned_data.value)

\* the data holds a sequence with a NaN or pd.NA element
RECURSIVE HasMissingElem(_)
HasMissingElem(v) ==
    CASE v.t = "dict" -> \E i \in 1..Len(v.items) : HasMissingElem(v.items[i][2])
      [] v.t = "list" ->
            \E i \in 1..Len(v.elems) :
                v.elems[i].t \in {"nan", "NA"} \/ HasMissingElem(v.elems[i])
      [] OTHER -> FALSE

\* what C18 says holds of all data without a NaN-like element in a sequence
InvC18WithoutMissingElem == HasMissingElem(input_data) \/ InvC18

----------------------------------------------------------------------------
(* Properties of flatten_json *)

FlattenReturned == pc = "flattened"

\* the scalar leaves of v, each with the path that leads to it
RECURSIVE Leaves(_, _), LeavesOfItems(_, _, _), LeavesOfElems(_, _, _)
Leaves(v, path) ==
    CASE v.t = "dict" -> LeavesOfItems(v.items, 1, path)
      [] v.t = "list" -> LeavesOfElems(v.elems, 1, path)
      [] OTHER -> << <<path, v>> >>

LeavesOfItems(items, i, path) ==
    IF i > Len(items) THEN <<>>
    ELSE Leaves(items[i][2], Append(path, Format(items[i][1])))
            \o LeavesOfItems(items, i + 1, path)

LeavesOfElems(elems, i, path) ==
    IF i > Len(elems) THEN <<>>
    ELSE Leaves(elems[i], Append(path, IntText(i - 1)))
            \o LeavesOfElems(elems, i + 1, path)

\* the steps of a path joined by "_"
RECURSIVE JoinPath(_)
JoinPath(path) ==
    IF Len(path) = 1 THEN path[1]
    ELSE path[1] \o <<95>> \o JoinPath(Tail(path))

\* C19: flatten_json returns a single-level mapping whose every value is a
\* scalar and whose key for a leaf is the separator-join of the path to
\* that leaf, a sequence position contributing its stringified index as a
\* mapping key would.
InvC19 ==
    FlattenReturned =>
        LET out == flattened.value
            leaves == Leaves(input_data, <<>>)
        IN  /\ out.t = "dict"
            /\ \A i \in 1..Len(out.items) : out.items[i][2].t \notin {"dict", "list"}
            /\ \A n \in 1..Len(leaves) :
                  \E i \in 1..Len(out.items) :
                      out.items[i][1] = PText(JoinPath(leaves[n][1]))
            /\ \A i \in 1..Len(out.items) :
                  \E n \in 1..Len(leaves) :
                      /\ out.items[i][1] = PText(JoinPath(leaves[n][1]))
                      /\ out.items[i][2] = leaves[n][2]

\* the data has a falsy key (the empty str or 0) with a mapping or a
\* sequence under it, or a key that is no str
RECURSIVE HasFalsyParent(_)
HasFalsyParent(v) ==
    CASE v.t = "dict" ->
            \E i \in 1..Len(v.items) :
                \/ v.items[i][1].t # "text"
                \/ v.items[i][1] = TextEmpty /\ v.items[i][2].t \in {"dict", "list"}
                \/ HasFalsyParent(v.items[i][2])
      [] v.t = "list" -> \E i \in 1..Len(v.elems) : HasFalsyParent(v.elems[i])
      [] OTHER -> FALSE

\* what C19 says holds of all data whose keys are non-empty strs where a
\* mapping or a sequence lies under them
InvC19WithoutFalsyParent == HasFalsyParent(input_data) \/ InvC19

----------------------------------------------------------------------------
(* Properties of the Document attributes *)

\* the value configured under key, or the default
ConfiguredOr(key, default) ==
    IF \E i \in 1..Len(config) : config[i][1] = key
    THEN config[CHOOSE i \in 1..Len(config) : config[i][1] = key][2]
    ELSE default

\* C20: every Document built by APITransformer carries applicationName,
\* formName and locale equal to the configured values, or the defaults
\* ENGINE, ENGINE_FIELD_SETTINGS and en when not configured, and phase
\* equal to the empty string, for every row and whatever the row holds.
InvC20 ==
    (TransformReturned /\ transformed_data.status = "ok") =>
        /\ Len(DocumentsOf(transformed_data)) = Len(parsed_data[sheet_name])
        /\ \A i \in 1..Len(DocumentsOf(transformed_data)) :
              LET doc == DocumentsOf(transformed_data)[i].items
              IN  /\ Keys(doc) = <<"applicationName", "formName", "phase", "locale", "Fields">>
                  /\ Get(doc, "applicationName") = PStr(ConfiguredOr("application_name", "ENGINE"))
                  /\ Get(doc, "formName") = PStr(ConfiguredOr("form_name", "ENGINE_FIELD_SETTINGS"))
                  /\ Get(doc, "locale") = PStr(ConfiguredOr("locale", "en"))
                  /\ Get(doc, "phase") = PStr("")

\* two Documents of different rows, built with a configured applicationName
WitC20 ==
    /\ TransformReturned
    /\ transformed_data.status = "ok"
    /\ Len(DocumentsOf(transformed_data)) = 2
    /\ parsed_data[sheet_name][1] # parsed_data[sheet_name][2]
    /\ \A i \in 1..2 :
          /\ Get(DocumentsOf(transformed_data)[i].items, "applicationName") = PStr("APP")
          /\ Get(DocumentsOf(transformed_data)[i].items, "phase") = PStr("")

\* Documents built without configuration carry the defaults
WitC20Defaults ==
    /\ TransformReturned
    /\ transformed_data.status = "ok"
    /\ config = <<>>
    /\ Len(DocumentsOf(transformed_data)) = 2
    /\ \A i \in 1..2 :
          /\ Get(DocumentsOf(transformed_data)[i].items, "applicationName") = PStr("ENGINE")
          /\ Get(DocumentsOf(transformed_data)[i].items, "formName") = PStr("ENGINE_FIELD_SETTINGS")
          /\ Get(DocumentsOf(transformed_data)[i].items, "locale") = PStr("en")

----------------------------------------------------------------------------
(* FieldMapper.load_mapping (field_mapper.py, lines 29-63) *)

\* the mapping the mapper holds after the call, and what the call returns
\* or raises: line 49 assigns self.mapping before line 52 tests its type
load_mapping(m, source) ==
    IF ~source.exists THEN [mapping |-> m, result |-> Raise("FileNotFoundError")]
    ELSE IF ~source.json THEN [mapping |-> m, result |-> Raise("ValueError")]
    ELSE IF source.value.t # "dict"
         THEN [mapping |-> source.value, result |-> Raise("ValueError")]
         ELSE [mapping |-> source.value, result |-> Ok(source.value)]

\* the values a JSON object of a mapping file may hold
MappingValues ==
    {PStr("X"), PStr("b"), PInt(7), PNone, PList(<<PStr("X")>>),
     PDict(<< <<"a", PStr("X")>> >>)}

\* the JSON objects over some of the column names
MappingObjects ==
    UNION {{LET names == SelectSeq(ColNames, LAMBDA c : c \in sources)
            IN  PDict([i \in 1..Len(names) |-> <<names[i], f[names[i]]>>]) :
               f \in [sources -> MappingValues]} :
              sources \in SUBSET Cols}

\* the mapping files: none, one that is not JSON, and one for each JSON
\* value, objects and other top-level values
MappingSources ==
    {NoMappingSource, NotJsonSource}
        \cup {MappingSource(v) :
                 v \in MappingObjects
                          \cup {PList(<<>>), PList(<<PStr("a")>>), PInt(7), PStr("a"),
                                PNone, PBool(TRUE)}}

InitLoad ==
    /\ pc = "load_mapping"
    /\ config = <<>>
    /\ numpy_empty_raises = FALSE
    /\ mapping \in {PDict(<<>>), PDict(<< <<"b", PStr("Y")>> >>)}
    /\ mapping_file = TRUE
    /\ mapping_source \in MappingSources
    /\ output_curl = FALSE
    /\ sheet_name = "fields"
    /\ parsed_data = <<>>
    /\ mapped_data = NotCalled
    /\ transformed_data = NotCalled
    /\ is_valid = NotCalled
    /\ username = PNone
    /\ password = PNone
    /\ curl_commands = NotCalled
    /\ commands = <<>>
    /\ saved = 0
    /\ script = NoFile
    /\ raised = ""
    /\ PlainIdle

LoadMapping ==
    /\ pc = "load_mapping"
    /\ mapping' = load_mapping(mapping, mapping_source).mapping
    /\ IF load_mapping(mapping, mapping_source).result.status = "raise"
       THEN /\ raised' = load_mapping(mapping, mapping_source).result.exc
            /\ pc' = "error"
       ELSE /\ raised' = ""
            /\ pc' = "loaded"
    /\ UNCHANGED <<config, numpy_empty_raises, mapping_file, mapping_source,
                   output_curl, sheet_name, username, password, conv, store,
                   parsed_data,
                   mapped_data, transformed_data, is_valid, curl_commands,
                   commands, saved, script>>

NextLoad == LoadMapping

SpecLoad == InitLoad /\ [][NextLoad]_vars

----------------------------------------------------------------------------
(* Properties of load_mapping *)

\* load_mapping has returned or raised
LoadReturned == pc \in {"loaded", "error"}

\* a table from strings to strings
FlatStringTable(v) ==
    /\ v.t = "dict"
    /\ \A i \in 1..Len(v.items) : v.items[i][2].t = "str"

\* C21: load_mapping accepts only a source that deserializes to a flat table
\* from strings to strings; any other shape fails with a format error
\* (ValueError) and is not installed as the mapper's mapping.
InvC21 ==
    (LoadReturned /\ mapping_source.exists /\ mapping_source.json) =>
        IF FlatStringTable(mapping_source.value)
        THEN raised = "" /\ mapping = mapping_source.value
        ELSE raised = "ValueError" /\ mapping # mapping_source.value

\* what the code does guarantee: a flat table is installed, a missing file is
\* FileNotFoundError, and a file that is not JSON or whose top-level value is
\* not an object is ValueError
InvC21TopLevel ==
    LoadReturned =>
        raised = (IF ~mapping_source.exists THEN "FileNotFoundError"
                  ELSE IF ~mapping_source.json \/ mapping_source.value.t # "dict"
                       THEN "ValueError"
                       ELSE "")

----------------------------------------------------------------------------
(* transform_data, then validate_transformed_data and                      *)
(* generate_curl_commands on what it returned                              *)

\* scalar cells and missing ones
ScalarCells == {PNone, PNaN, PStr(" "), PStr("x"), PInt(7), PBool(FALSE)}

\* sequences of n distinct column names, the empty name among them
NamedShapes(n) ==
    {s \in [1..n -> Cols \cup {""}] : \A i, j \in 1..n : s[i] = s[j] => i = j}

\* tables of up to maxRows rows whose cells are scalar or missing
BuilderTables(maxRows, maxCols) ==
    UNION {UNION {UNION {[1..m -> RowsOf(shape, SimpleCells)] : m \in 0..maxRows}
                     \cup {<<r>> : r \in RowsOf(shape, ScalarCells)} :
                     shape \in NamedShapes(n)} :
              n \in 0..maxCols}

InitBuilder ==
    /\ pc = "transform"
    /\ config = <<>>
    /\ numpy_empty_raises = FALSE
    /\ mapping = PDict(<<>>)
    /\ mapping_file = FALSE
    /\ mapping_source = NoMappingSource
    /\ output_curl = FALSE
    /\ sheet_name \in SheetNames
    /\ \E rows \in BuilderTables(MaxRows, MaxCols) :
          parsed_data = [s \in {"fields"} |-> rows]
    /\ mapped_data = NotCalled
    /\ transformed_data = NotCalled
    /\ is_valid = NotCalled
    /\ username = PNone
    /\ password = PNone
    /\ curl_commands = NotCalled
    /\ commands = <<>>
    /\ saved = 0
    /\ script = NoFile
    /\ raised = ""
    /\ PlainIdle

\* validate_transformed_data on what transform_data returned
ValidateOwnOutput ==
    /\ pc = "transformed"
    /\ transformed_data.status = "ok"
    /\ is_valid' = validate_transformed_data(transformed_data.value)
    /\ pc' = "checked"
    /\ UNCHANGED <<env, conv, store, parsed_data, mapped_data, transformed_data,
                   curl_commands, commands, saved, script, raised>>

\* generate_curl_commands on what transform_data returned
GenerateFromOwnOutput ==
    /\ pc = "checked"
    /\ curl_commands' = generate_curl_commands(transformed_data.value)
    /\ pc' = "emitted"
    /\ UNCHANGED <<env, conv, store, parsed_data, mapped_data, transformed_data, is_valid,
                   commands, saved, script, raised>>

NextBuilder ==
    \/ TransformData
    \/ ValidateOwnOutput
    \/ GenerateFromOwnOutput

SpecBuilder == InitBuilder /\ [][NextBuilder]_vars

----------------------------------------------------------------------------
(* Properties of the builder's own output *)

\* C23: when the named sheet is not a key of the tables, transform_data
\* returns an empty Document sequence without raising; that result passes
\* validate_transformed_data, and generate_curl_commands on it returns no
\* call.
InvC23 ==
    sheet_name \notin DOMAIN parsed_data =>
        /\ pc \in {"transformed", "checked", "emitted"} =>
              transformed_data = Ok(PDict(<< <<"Document", PList(<<>>)>> >>))
        /\ pc \in {"checked", "emitted"} => is_valid = Ok(PBool(TRUE))
        /\ pc = "emitted" => curl_commands = Ok(<<>>)

\* the three calls were made for a sheet that is not there, on a table
\* with rows
WitC23 ==
    /\ pc = "emitted"
    /\ sheet_name \notin DOMAIN parsed_data
    /\ Len(parsed_data["fields"]) = 2
    /\ Len(parsed_data["fields"][1]) > 0
    /\ curl_commands.status = "ok"

\* C24: on tables whose rows map string column names to scalar or missing
\* cells, what transform_data returns passes validate_transformed_data, and
\* every FieldEntry in it has a non-empty fieldName.
InvC24 ==
    /\ pc \in {"transformed", "checked", "emitted"} =>
          /\ transformed_data.status = "ok"
          /\ \A i \in 1..Len(DocumentsOf(transformed_data)) :
                LET names == FieldNamesOf(DocumentsOf(transformed_data)[i])
                IN  \A j \in 1..Len(names) : names[j] # ""
    /\ pc \in {"checked", "emitted"} => is_valid = Ok(PBool(TRUE))

\* the validation does pass on every such table
InvC24Gate ==
    /\ pc \in {"transformed", "checked", "emitted"} => transformed_data.status = "ok"
    /\ pc \in {"checked", "emitted"} => is_valid = Ok(PBool(TRUE))

----------------------------------------------------------------------------
(* Properties of flatten_json: what it keeps *)

\* the key _flatten stores each scalar leaf of v under, leaf by leaf in the
\* order of Leaves
RECURSIVE LeafKeys(_, _), LeafKeysOfItems(_, _, _), LeafKeysOfElems(_, _, _)
LeafKeys(v, parent_key) ==
    CASE v.t = "dict" -> LeafKeysOfItems(v.items, 1, parent_key)
      [] v.t = "list" -> LeafKeysOfElems(v.elems, 1, parent_key)
      [] OTHER -> <<parent_key>>

LeafKeysOfItems(items, i, parent_key) ==
    IF i > Len(items) THEN <<>>
    ELSE LeafKeys(items[i][2], NewKey(parent_key, items[i][1]))
            \o LeafKeysOfItems(items, i + 1, parent_key)

LeafKeysOfElems(elems, i, parent_key) ==
    IF i > Len(elems) THEN <<>>
    ELSE LeafKeys(elems[i],
                  IF Truthy(parent_key) THEN NewKey(parent_key, PInt(i - 1))
                  ELSE PText(IntText(i - 1)))
            \o LeafKeysOfElems(elems, i + 1, parent_key)

\* C25: flatten_json loses no data: two distinct leaf paths never get the
\* same flattened key, and the result has as many entries as the input has
\* scalar leaves.
InvC25 ==
    FlattenReturned =>
        LET leaves == Leaves(input_data, <<>>)
            keys == LeafKeys(input_data, PText(<<>>))
        IN  /\ \A m, n \in 1..Len(leaves) :
                  leaves[m][1] # leaves[n][1] => keys[m] # keys[n]
            /\ Len(flattened.value.items) = Len(leaves)

\* some key of the data holds the separator
RECURSIVE HasSeparatorKey(_)
HasSeparatorKey(v) ==
    CASE v.t = "dict" ->
            \E i \in 1..Len(v.items) :
                \/ v.items[i][1].t = "text"
                      /\ \E j \in 1..Len(v.items[i][1].codes) :
                            v.items[i][1].codes[j] = separator[1]
                \/ HasSeparatorKey(v.items[i][2])
      [] v.t = "list" -> \E i \in 1..Len(v.elems) : HasSeparatorKey(v.elems[i])
      [] OTHER -> FALSE

\* what C25 says holds of data whose keys are non-empty strs without the
\* separator, empty mappings and sequences among the values included
InvC25PlainKeys ==
    HasFalsyParent(input_data) \/ HasSeparatorKey(input_data) \/ InvC25

----------------------------------------------------------------------------
(* Properties of clean_json_data: cleaning what was cleaned *)

\* C26: clean_json_data is idempotent: cleaning what it returned gives
\* what it returned, for any nested data, sequences with NaN-like elements
\* included.
InvC26 ==
    CleanedJson => clean_json_data(cleaned_data.value) = cleaned_data.value

\* what C26 says holds of all data without a NaN-like element in a sequence
InvC26WithoutMissingElem == HasMissingElem(input_data) \/ InvC26

----------------------------------------------------------------------------
(* Properties of validate_transformed_data: whether it returns *)

\* C27: validate_transformed_data is total: for every input mapping, one
\* whose Document sequence or whose Fields sequence holds an element that
\* is not a mapping included, it returns true or false and never raises.
InvC27 ==
    pc = "validated" =>
        /\ is_valid.status = "ok"
        /\ is_valid.value \in {PBool(TRUE), PBool(FALSE)}

\* what C27 says holds when the Documents and the FieldEntries are all
\* mappings
InvC27AllMappings ==
    (pc = "validated" /\ AllMappings(transformed_data.value)) =>
        /\ is_valid.status = "ok"
        /\ is_valid.value \in {PBool(TRUE), PBool(FALSE)}

----------------------------------------------------------------------------
(* The stages on objects in memory.  An object has a number, its place in  *)
(* the heap; a container holds scalars and references to other objects,    *)
(* so that two containers may share a row and a write through one is seen  *)
(* through the other.                                                      *)

Ref(n) == [t |-> "ref", id |-> n]

\* a new object with this content: the heap afterwards and its number
Alloc(h, content) == [heap |-> Append(h, content), id |-> Len(h) + 1]

\* copy() that hands back the object itself
copy_alias(h, n) == [heap |-> h, id |-> n]

\* data.copy() (field_mapper.py, line 84) and df.copy() (excel_parser.py,
\* line 153): a new object with the same content; the references in it
\* are shared with the original
copy(h, n) == Alloc(h, h[n])

\* the tables in memory: an object for each row, the list of the rows of
\* the sheet, and the dict of the sheets, which is the last object
TablesHeap(rows) ==
    [i \in 1..Len(rows) |-> [t |-> "dict", items |-> rows[i]]]
        \o << [t |-> "list", elems |-> [i \in 1..Len(rows) |-> Ref(i)]],
              [t |-> "dict", items |-> << <<"fields", Ref(Len(rows) + 1)>> >>] >>

\* the rows the list l holds
RowsAt(h, l) == [i \in 1..Len(h[l].elems) |-> h[h[l].elems[i].id].items]

\* the tables the dict d holds
TablesAt(h, d) ==
    [s \in {h[d].items[k][1] : k \in 1..Len(h[d].items)} |->
        RowsAt(h, Get(h[d].items, s).id)]

\* field_mapper.py, lines 76-100, on objects: the heap afterwards and the
\* number of the object returned
apply_mapping_heap(h, m, data, sheet) ==
    IF ~Truthy(m) THEN [heap |-> h, id |-> data]
    ELSE IF ~HasKey(h[data].items, sheet) THEN [heap |-> h, id |-> data]
    ELSE LET result == copy(h, data)
             mapped_rows == Alloc(result.heap, [t |-> "list", elems |-> <<>>])
             rows == h[Get(h[data].items, sheet).id].elems
             first == Len(mapped_rows.heap)
             \* lines 88-94: a new dict for each row, appended to mapped_rows
             h1 == mapped_rows.heap
                      \o [i \in 1..Len(rows) |->
                             [t |-> "dict", items |-> MappedRow(m, h[rows[i].id].items)]]
             h2 == [h1 EXCEPT ![mapped_rows.id].elems =
                                  [i \in 1..Len(rows) |-> Ref(first + i)]]
             \* line 97
             h3 == [h2 EXCEPT ![result.id].items =
                                  DictSet(@, sheet, Ref(mapped_rows.id))]
         IN  [heap |-> h3, id |-> result.id]

\* api_transformer.py, lines 44-58, on objects: the new dict and its
\* Document list; the Documents are new values held by the list
transform_data_heap(h, data, sheet) ==
    LET documents == Alloc(h, [t |-> "list", elems |-> <<>>])
        api_data == Alloc(documents.heap,
                          [t |-> "dict", items |-> << <<"Document", Ref(documents.id)>> >>])
    IN  IF ~HasKey(h[data].items, sheet)
        THEN [heap |-> api_data.heap, id |-> api_data.id, exc |-> ""]
        ELSE LET field_rows == h[Get(h[data].items, sheet).id].elems
                 docs == [i \in 1..Len(field_rows) |->
                             _create_document(h[field_rows[i].id].items)]
             IN  IF \E i \in 1..Len(field_rows) : docs[i].status = "raise"
                 THEN [heap |-> api_data.heap, id |-> 0, exc |-> "ValueError"]
                 ELSE [heap |-> [api_data.heap EXCEPT ![documents.id].elems =
                                    [i \in 1..Len(field_rows) |-> docs[i].value]],
                       id |-> api_data.id, exc |-> ""]

\* the container the dict d holds
ApiDataAt(h, d) ==
    PDict(<< <<"Document", PList(h[Get(h[d].items, "Document").id].elems)>> >>)

\* the DataFrames in memory: an object for each of them, then the dict of
\* the sheets
FramesHeap(dfs) ==
    [k \in 1..Len(dfs) |->
        [t |-> "frame", columns |-> dfs[k][2].columns, rows |-> dfs[k][2].rows]]
        \o << [t |-> "dict", items |-> [k \in 1..Len(dfs) |-> <<dfs[k][1], Ref(k)>>]] >>

\* the DataFrames the dict d holds
FramesAt(h, d) ==
    [k \in 1..Len(h[d].items) |->
        <<h[d].items[k][1],
          DataFrame(h[h[d].items[k][2].id].columns, h[h[d].items[k][2].id].rows)>>]

\* excel_parser.py, lines 153-171, on objects: copy, dropna, replace and
\* where return a new DataFrame, lines 159-163 write into cleaned_df
_clean_dataframe_heap(h, df) ==
    LET orig == DataFrame(h[df].columns, h[df].rows)
        cleaned_df == copy(h, df)
        dropped == Alloc(cleaned_df.heap,
                         [cleaned_df.heap[cleaned_df.id] EXCEPT !.rows = dropna(@)])
        h1 == [dropped.heap EXCEPT
                  ![dropped.id].columns = [j \in 1..Len(@) |-> Strip(@[j])],
                  ![dropped.id].rows =
                      [i \in 1..Len(@) |->
                          [j \in 1..Len(@[i]) |-> StripCell(orig, j, @[i][j])]]]
        replaced == Alloc(h1, [h1[dropped.id] EXCEPT !.rows =
                                  [i \in 1..Len(@) |->
                                      [j \in 1..Len(@[i]) |-> ReplaceEmpty(@[i][j])]]])
    IN  Alloc(replaced.heap,
              [replaced.heap[replaced.id] EXCEPT !.rows =
                  [i \in 1..Len(@) |->
                      [j \in 1..Len(@[i]) |-> FillNone(orig, j, @[i][j])]]])

\* lines 132-134 from sheet k on: the heap afterwards
RECURSIVE CleanFrom(_, _, _, _)
CleanFrom(h, items, k, new_dfs) ==
    IF k > Len(items) THEN h
    ELSE LET cleaned_df == _clean_dataframe_heap(h, items[k][2].id)
         IN  CleanFrom([cleaned_df.heap EXCEPT ![new_dfs].items =
                           DictSet(@, items[k][1], Ref(cleaned_df.id))],
                       items, k + 1, new_dfs)

\* excel_parser.py, lines 130-136, on objects
clean_dataframes_heap(h, dfs) ==
    LET new_dfs == Alloc(h, [t |-> "dict", items |-> <<>>])
    IN  [heap |-> CleanFrom(new_dfs.heap, h[dfs].items, 1, new_dfs.id),
         id |-> new_dfs.id]

----------------------------------------------------------------------------
(* A stage called on objects the caller keeps *)

InitStore ==
    /\ config = <<>>
    /\ numpy_empty_raises = FALSE
    /\ mapping_file = FALSE
    /\ mapping_source = NoMappingSource
    /\ output_curl = FALSE
    /\ mapped_data = NotCalled
    /\ transformed_data = NotCalled
    /\ is_valid = NotCalled
    /\ username = PNone
    /\ password = PNone
    /\ curl_commands = NotCalled
    /\ commands = <<>>
    /\ saved = 0
    /\ script = NoFile
    /\ raised = ""
    /\ required_columns = <<>>
    /\ data_valid = NotCalled
    /\ cleaned_dfs = NotCalled
    /\ converter = [date_format |-> <<>>, flatten |-> FALSE]
    /\ input_data = PNone
    /\ cleaned_data = NotCalled
    /\ flattened = NotCalled
    /\ json_data = NotCalled
    /\ json_valid = NotCalled
    /\ output_path = FALSE
    /\ out_file = [exists |-> FALSE, content |-> <<>>]
    /\ ret = 0
    /\ \/ /\ pc = "call apply_mapping"
          /\ mapping \in Mappings
          /\ sheet_name \in SheetNames
          /\ \E rows \in MapperTables :
                /\ parsed_data = [s \in {"fields"} |-> rows]
                /\ heap = TablesHeap(rows)
                /\ arg = Len(rows) + 2
          /\ dataframes = <<>>
       \/ /\ pc = "call transform_data"
          /\ mapping = PDict(<<>>)
          /\ sheet_name \in SheetNames
          /\ \E rows \in MapperTables \cup {<<r>> : r \in RowsOf(<<"a">>, RichCells)} :
                /\ parsed_data = [s \in {"fields"} |-> rows]
                /\ heap = TablesHeap(rows)
                /\ arg = Len(rows) + 2
          /\ dataframes = <<>>
       \/ /\ pc = "call clean_dataframes"
          /\ mapping = PDict(<<>>)
          /\ sheet_name = "fields"
          /\ parsed_data = <<>>
          /\ dataframes \in Workbooks
          /\ heap = FramesHeap(dataframes)
          /\ arg = Len(dataframes) + 1

ApplyMappingCall ==
    /\ pc = "call apply_mapping"
    /\ heap' = apply_mapping_heap(heap, mapping, arg, sheet_name).heap
    /\ ret' = apply_mapping_heap(heap, mapping, arg, sheet_name).id
    /\ mapped_data' = Ok(TablesAt(heap', ret'))
    /\ pc' = "returned apply_mapping"
    /\ UNCHANGED <<env, conv, arg, parsed_data, transformed_data, is_valid,
                   curl_commands, commands, saved, script, raised>>

TransformDataCall ==
    /\ pc = "call transform_data"
    /\ heap' = transform_data_heap(heap, arg, sheet_name).heap
    /\ ret' = transform_data_heap(heap, arg, sheet_name).id
    /\ transformed_data' =
          IF transform_data_heap(heap, arg, sheet_name).exc # ""
          THEN Raise(transform_data_heap(heap, arg, sheet_name).exc)
          ELSE Ok(ApiDataAt(heap', ret'))
    /\ pc' = "returned transform_data"
    /\ UNCHANGED <<env, conv, arg, parsed_data, mapped_data, is_valid,
                   curl_commands, commands, saved, script, raised>>

CleanDataframesCall ==
    /\ pc = "call clean_dataframes"
    /\ heap' = clean_dataframes_heap(heap, arg).heap
    /\ ret' = clean_dataframes_heap(heap, arg).id
    /\ cleaned_dfs' = Ok(FramesAt(heap', ret'))
    /\ pc' = "returned clean_dataframes"
    /\ UNCHANGED <<api, arg, parsed_data, raised, dataframes, required_columns,
                   data_valid, converter, input_data, cleaned_data,
                   flattened, json_data, json_valid, output_path, out_file>>

NextStore ==
    \/ ApplyMappingCall
    \/ TransformDataCall
    \/ CleanDataframesCall

SpecStore == InitStore /\ [][NextStore]_vars

----------------------------------------------------------------------------
(* Properties of the stages on objects *)

\* what a stage returns in memory is what it returns as a value
StoreAgrees ==
    /\ pc = "returned apply_mapping" =>
          mapped_data = apply_mapping(mapping, parsed_data, sheet_name)
    /\ pc = "returned transform_data" =>
          transformed_data = transform_data(parsed_data, sheet_name)
    /\ pc = "returned clean_dataframes" =>
          cleaned_dfs = Ok(clean_dataframes(dataframes))

\* C22: no stage mutates its input: after apply_mapping, transform_data
\* and clean_dataframes return, the tables and rows passed in have the
\* keys, values and order they had before the call.
InvC22 ==
    /\ pc \in {"returned apply_mapping", "returned transform_data"} =>
          TablesAt(heap, arg) = parsed_data
    /\ pc = "returned clean_dataframes" => FramesAt(heap, arg) = dataframes

\* apply_mapping returned new tables with renamed columns for two rows
WitC22 ==
    /\ pc = "returned apply_mapping"
    /\ ret # arg
    /\ Len(parsed_data["fields"]) = 2
    /\ mapped_data.value # parsed_data
    /\ TablesAt(heap, arg) = parsed_data

\* clean_dataframes returned tables that differ from the ones it was given
WitC22Clean ==
    /\ pc = "returned clean_dataframes"
    /\ cleaned_dfs.value # dataframes
    /\ FramesAt(heap, arg) = dataframes

====
